---- MODULE Spec2Model ----
(***************************************************************************)
(* A model of the fire-dashboard analytics core:                           *)
(*   - domain/finance/returns.ts, statistics.ts, sharpeCalculator.ts       *)
(*     (pure functions, specification SpecSharpe), and                     *)
(*   - adapters/cache/nextCacheAdapter.ts with                             *)
(*     services/stockData/stockDataService.ts (asynchronous calls,         *)
(*     specification Spec),                                                *)
(*   - domain/stock/validator.ts, the request schemas and the routes       *)
(*     (SpecTickerInput, SpecLookback, SpecRequest, SpecSharpeRoute), and  *)
(*   - the client state: the useTickers store (SpecWatchList) and the      *)
(*     useSharpeCalculations hook (SpecSharpeCalculations).                *)
(*                                                                         *)
(* Numbers.  JavaScript numbers are modelled by integers: prices are whole *)
(* currency units, returns and standard deviations are whole percents, a   *)
(* Sharpe ratio is kept in 1/RatioScale units.  A division truncates       *)
(* toward zero.  With the prices of Prices every one-step and trailing     *)
(* return is exactly representable.  NaN (also what arithmetic makes of    *)
(* an out-of-range array read, undefined) is the reserved value NaN.       *)
(***************************************************************************)
EXTENDS Integers, Sequences, FiniteSets, TLC

\* ------------------------------------------------------------------ bounds
\* Longest price series of SpecSharpe.
MaxLen == 5
\* Largest lookback of SpecSharpe.
MaxLookback == 3
\* Lookbacks below 1 that SpecSharpe also draws (0 .. 1-NonPositiveLookbacks).
NonPositiveLookbacks == 2
\* How often SpecSharpe calls enhanceWithSharpeMetrics on the same input.
MaxEnhanceCalls == 2
\* SpecMultiPeriod: series lengths lie within Margin of a period's required
\* length; the price of a series rises every k-th day, k up to MaxPattern.
Margin == 2
MaxPattern == 3
\* Longest free-text ticker input SpecTickerInput enumerates.
MaxText == 5
\* How often SpecLookback calls setLookback.
MaxSetCalls == 2
\* How often the watch list changes in SpecSharpeCalculations.
MaxListChanges == 3
\* How many calls the useTickers store handles in SpecWatchList.
MaxStoreCalls == 4
\* Most bars the price source delivers for a ticker in SpecSharpeRoute.
MaxBars == 3
\* Most values SpecStdDev hands to calculateStandardDeviation.
MaxSamples == 3
\* SpecTrailingReturn: the prices handed to calculateTrailingReturn lie
\* within PriceSpan tenths of a unit price of 10.
PriceSpan == 6

\* Concurrent calls of fetchSingleStock / getCached in Spec.
NCalls == 3
\* Longest ticker list handed to fetchMultipleStocks in Spec.
MaxBatch == 2
\* How often the clock advances in Spec, and by how many seconds each time.
MaxTicks == 2
TickSeconds == 2400
\* How often the upstream price source changes (up, down, no bars).
MaxUpstreamChanges == 1
\* How many cache invalidations are requested in Spec.
MaxInvalidations == 1

\* Closing prices the inputs are drawn from (0 is an invalid bar's price).
Prices == {0, 50, 100}

\* --------------------------------------------------------------- numbers
NaN == -1000000
Infinity == 1000000
RatioScale == 100

IsNaN(x) == x = NaN

Abs(x) == IF x < 0 THEN -x ELSE x

\* a / b of two finite numbers, b # 0, truncated toward zero.
JsDiv(a, b) ==
    LET q == Abs(a) \div Abs(b)
    IN  IF (a < 0) = (b < 0) THEN q ELSE -q

\* arr[i] with a 0-based index: undefined (NaN in arithmetic) out of range.
At(arr, i) == IF i >= 0 /\ i < Len(arr) THEN arr[i + 1] ELSE NaN

\* Array.prototype.slice(start) with one argument.
SliceFrom(arr, start) ==
    LET n == Len(arr)
        from == IF start < 0 THEN (IF n + start < 0 THEN 0 ELSE n + start)
                ELSE (IF start > n THEN n ELSE start)
    IN  SubSeq(arr, from + 1, n)

\* Array.prototype.slice(0, end) with 0 <= end.
SliceTo(arr, end) == SubSeq(arr, 1, IF end > Len(arr) THEN Len(arr) ELSE end)

RECURSIVE ISqrtFrom(_, _)
ISqrtFrom(n, r) == IF (r + 1) * (r + 1) > n THEN r ELSE ISqrtFrom(n, r + 1)

\* Floor of the square root of n >= 0.
ISqrt(n) == ISqrtFrom(n, 0)

\* s[lo] + ... + s[hi], by halves.
RECURSIVE SumRange(_, _, _)
SumRange(s, lo, hi) ==
    IF lo > hi THEN 0
    ELSE IF lo = hi THEN s[lo]
    ELSE LET mid == (lo + hi) \div 2
         IN  SumRange(s, lo, mid) + SumRange(s, mid + 1, hi)

SumSeq(s) == SumRange(s, 1, Len(s))

\* ------------------------------------------------ domain/finance/returns
\* Mutant: no test of pastPrice <= 0; x / 0 is NaN for x = 0 and an infinity
\* otherwise.
calculateTrailingReturn_NoGuard(current, past) ==
    IF IsNaN(past) \/ IsNaN(current) THEN NaN
    ELSE IF past = 0
         THEN (IF current = 0 THEN NaN
               ELSE IF current > 0 THEN Infinity ELSE -Infinity)
    ELSE JsDiv((current - past) * 100, past)

calculateTrailingReturn(current, past) ==
    IF ~IsNaN(past) /\ past <= 0 THEN 0
    ELSE IF IsNaN(past) \/ IsNaN(current) THEN NaN
    ELSE JsDiv((current - past) * 100, past)

\* Mutant: every return is taken against the first price.
calculateReturns_AgainstFirst(prices) ==
    IF Len(prices) < 2 THEN <<>>
    ELSE [i \in 1..(Len(prices) - 1) |->
             calculateTrailingReturn(prices[i + 1], prices[1])]

calculateReturns(prices) ==
    IF Len(prices) < 2 THEN <<>>
    ELSE [i \in 1..(Len(prices) - 1) |->
             calculateTrailingReturn(prices[i + 1], prices[i])]

\* --------------------------------------------- domain/finance/statistics
\* calcStdDev of @railpath/finance-toolkit.  The package is not part of the
\* repository; it is a deterministic estimator, the population or the sample
\* one, and the model fixes which in the initial state (estimator).  NaN
\* among the values makes the sums, and the result, NaN.
calcStdDev(values, estimator) ==
    LET n == Len(values)
        sum == SumSeq(values)
        sumsq == SumSeq([i \in 1..n |-> values[i] * values[i]])
        num == n * sumsq - sum * sum
        den == IF estimator = "population" THEN n * n ELSE n * (n - 1)
    IN  IF \E i \in 1..n : IsNaN(values[i]) THEN NaN
        ELSE ISqrt(num \div den)

\* How a call of calcStdDev ends: with a number, or with an exception.  The
\* estimator "throwing" stands for a package that rejects the values.
TryCalcStdDev(values, estimator) ==
    IF estimator = "throwing"
    THEN [threw |-> TRUE, value |-> 0]
    ELSE [threw |-> FALSE, value |-> calcStdDev(values, estimator)]

\* The reserved value that stands for an exception reaching the caller.
Thrown == -2000000

\* Mutant: no try / catch, the exception reaches the caller.
calculateStandardDeviation_NoCatch(values, estimator) ==
    IF Len(values) < 2 THEN 0
    ELSE LET r == TryCalcStdDev(values, estimator)
         IN  IF r.threw THEN Thrown ELSE r.value

\* try { return calcStdDev(values) } catch (error) { return 0 }
calculateStandardDeviation(values, estimator) ==
    IF Len(values) < 2 THEN 0
    ELSE LET r == TryCalcStdDev(values, estimator)
         IN  IF r.threw THEN 0 ELSE r.value

\* ------------------------------------------ domain/finance/sharpeCalculator
\* null
Null == [isNull |-> TRUE]

\* Mutant: no test of stdDev === 0; x / 0 is NaN for x = 0 and an infinity
\* otherwise.
calculateSharpeRatio_NoGuard(trailingReturn, stdDev, riskFreeRate) ==
    IF IsNaN(trailingReturn) THEN NaN
    ELSE IF stdDev = 0
         THEN (IF trailingReturn - riskFreeRate = 0 THEN NaN
               ELSE IF trailingReturn - riskFreeRate > 0 THEN Infinity
               ELSE -Infinity)
    ELSE JsDiv((trailingReturn - riskFreeRate) * RatioScale, stdDev)

calculateSharpeRatio(trailingReturn, stdDev, riskFreeRate) ==
    IF stdDev = 0 THEN 0
    ELSE IF IsNaN(trailingReturn) THEN NaN
    ELSE JsDiv((trailingReturn - riskFreeRate) * RatioScale, stdDev)

\* Mutant: the required length is one lookback window, not two.
calculateSharpeForPeriod_OneWindow(prices, lookbackDays, estimator) ==
    LET requiredLength == lookbackDays
        trailingReturn ==
            calculateTrailingReturn(At(prices, Len(prices) - 1),
                                    At(prices, Len(prices) - 1 - lookbackDays))
        stdDev ==
            calculateStandardDeviation(
                calculateReturns(SliceFrom(prices, -(lookbackDays + 1))),
                estimator)
    IN  IF Len(prices) < requiredLength THEN Null
        ELSE [sharpeRatio |-> calculateSharpeRatio(trailingReturn, stdDev, 0),
              trailingReturn |-> trailingReturn,
              stdDev |-> stdDev,
              periodDays |-> lookbackDays]

\* Mutant: a series of exactly the required length is still refused.
calculateSharpeForPeriod_Strict(prices, lookbackDays, estimator) ==
    LET requiredLength == lookbackDays * 2
        trailingReturn ==
            calculateTrailingReturn(At(prices, Len(prices) - 1),
                                    At(prices, Len(prices) - 1 - lookbackDays))
        stdDev ==
            calculateStandardDeviation(
                calculateReturns(SliceFrom(prices, -(lookbackDays + 1))),
                estimator)
    IN  IF Len(prices) <= requiredLength THEN Null
        ELSE [sharpeRatio |-> calculateSharpeRatio(trailingReturn, stdDev, 0),
              trailingReturn |-> trailingReturn,
              stdDev |-> stdDev,
              periodDays |-> lookbackDays]

\* Mutant: the deviation is taken over the last lookbackDays trailing
\* returns, each over lookbackDays days.
calculateSharpeForPeriod_TrailingDeviation(prices, lookbackDays, estimator) ==
    LET requiredLength == lookbackDays * 2
        n == Len(prices)
        trailingReturn ==
            calculateTrailingReturn(At(prices, n - 1),
                                    At(prices, n - 1 - lookbackDays))
        returns ==
            [k \in 1..lookbackDays |->
                calculateTrailingReturn(
                    At(prices, n - 1 - lookbackDays + k),
                    At(prices, n - 1 - 2 * lookbackDays + k))]
        stdDev == calculateStandardDeviation(returns, estimator)
    IN  IF Len(prices) < requiredLength THEN Null
        ELSE [sharpeRatio |-> calculateSharpeRatio(trailingReturn, stdDev, 0),
              trailingReturn |-> trailingReturn,
              stdDev |-> stdDev,
              periodDays |-> lookbackDays]

\* Mutant: the past price is read a whole required length back.
calculateSharpeForPeriod_PastTooFar(prices, lookbackDays, estimator) ==
    LET requiredLength == lookbackDays * 2
        trailingReturn ==
            calculateTrailingReturn(At(prices, Len(prices) - 1),
                                    At(prices, Len(prices) - 1 - requiredLength))
        stdDev ==
            calculateStandardDeviation(
                calculateReturns(SliceFrom(prices, -(lookbackDays + 1))),
                estimator)
    IN  IF Len(prices) < requiredLength THEN Null
        ELSE [sharpeRatio |-> calculateSharpeRatio(trailingReturn, stdDev, 0),
              trailingReturn |-> trailingReturn,
              stdDev |-> stdDev,
              periodDays |-> lookbackDays]

calculateSharpeForPeriod(prices, lookbackDays, estimator) ==
    LET requiredLength == lookbackDays * 2
        currentPrice == At(prices, Len(prices) - 1)
        pastPrice == At(prices, Len(prices) - 1 - lookbackDays)
        trailingReturn == calculateTrailingReturn(currentPrice, pastPrice)
        relevantPrices == SliceFrom(prices, -(lookbackDays + 1))
        returns == calculateReturns(relevantPrices)
        stdDev == calculateStandardDeviation(returns, estimator)
        sharpeRatio == calculateSharpeRatio(trailingReturn, stdDev, 0)
    IN  IF Len(prices) < requiredLength THEN Null
        ELSE [sharpeRatio |-> sharpeRatio,
              trailingReturn |-> trailingReturn,
              stdDev |-> stdDev,
              periodDays |-> lookbackDays]

extractPrices(data) == [i \in 1..Len(data) |-> data[i].close]

\* { ...dataPoint }
CopyPoint(p) ==
    [date |-> p.date, close |-> p.close, open |-> p.open,
     high |-> p.high, low |-> p.low, volume |-> p.volume]

\* { ...dataPoint, sharpeRatio1Y, trailingReturn1Y, stdDev1Y }
AnnotatedPoint(p, m) ==
    [date |-> p.date, close |-> p.close, open |-> p.open,
     high |-> p.high, low |-> p.low, volume |-> p.volume,
     sharpeRatio1Y |-> m.sharpeRatio,
     trailingReturn1Y |-> m.trailingReturn,
     stdDev1Y |-> m.stdDev]

\* Mutant: the metrics of a point are computed on the prefix that ends one
\* bar before it.
EnhancePoint_ShortPrefix(dataPoint, index, prices, lookbackArg, estimator) ==
    LET requiredLength == lookbackArg * 2
        pricesUpToNow == SliceTo(prices, index)
        m == calculateSharpeForPeriod(pricesUpToNow, lookbackArg, estimator)
    IN  IF index < requiredLength - 1 THEN CopyPoint(dataPoint)
        ELSE IF m = Null THEN CopyPoint(dataPoint)
        ELSE AnnotatedPoint(dataPoint, m)

\* Mutant: the metrics of a point are computed on the whole series.
EnhancePoint_WholeSeries(dataPoint, index, prices, lookbackArg, estimator) ==
    LET requiredLength == lookbackArg * 2
        m == calculateSharpeForPeriod(prices, lookbackArg, estimator)
    IN  IF index < requiredLength - 1 THEN CopyPoint(dataPoint)
        ELSE IF m = Null THEN CopyPoint(dataPoint)
        ELSE AnnotatedPoint(dataPoint, m)

\* The callback of historicalData.map: index is 0-based.
EnhancePoint(dataPoint, index, prices, lookbackArg, estimator) ==
    LET requiredLength == lookbackArg * 2
        pricesUpToNow == SliceTo(prices, index + 1)
        m == calculateSharpeForPeriod(pricesUpToNow, lookbackArg, estimator)
    IN  IF index < requiredLength - 1 THEN CopyPoint(dataPoint)
        ELSE IF m = Null THEN CopyPoint(dataPoint)
        ELSE AnnotatedPoint(dataPoint, m)

enhanceWithSharpeMetrics(data, lookbackArg, estimator) ==
    LET prices == extractPrices(data)
    IN  [i \in 1..Len(data) |->
            EnhancePoint(data[i], i - 1, prices, lookbackArg, estimator)]

\* ---------------------------------------------------------- domain/constants
TRADING_DAYS_YEAR == 250
TRADING_DAYS_SEMESTER == 125
TRADING_DAYS_QUARTER == 63
TRADING_DAYS_MONTH == 21
TRADING_DAYS_WEEK == 5

\* Mutant: one missing period empties every slot.
calculateMultiPeriodSharpe_AllOrNothing(prices, ticker, estimator) ==
    IF Len(prices) < 2 * TRADING_DAYS_YEAR
    THEN [ticker |-> ticker, yesterday |-> Null, lastWeek |-> Null,
          lastMonth |-> Null, lastQuarter |-> Null, lastSemester |-> Null,
          lastYear |-> Null]
    ELSE [ticker |-> ticker,
          yesterday |-> calculateSharpeForPeriod(prices, 1, estimator),
          lastWeek |->
              calculateSharpeForPeriod(prices, TRADING_DAYS_WEEK, estimator),
          lastMonth |->
              calculateSharpeForPeriod(prices, TRADING_DAYS_MONTH, estimator),
          lastQuarter |->
              calculateSharpeForPeriod(prices, TRADING_DAYS_QUARTER, estimator),
          lastSemester |->
              calculateSharpeForPeriod(prices, TRADING_DAYS_SEMESTER, estimator),
          lastYear |->
              calculateSharpeForPeriod(prices, TRADING_DAYS_YEAR, estimator)]

calculateMultiPeriodSharpe(prices, ticker, estimator) ==
    [ticker |-> ticker,
     yesterday |-> IF Len(prices) >= 2
                   THEN calculateSharpeForPeriod(prices, 1, estimator)
                   ELSE Null,
     lastWeek |->
         calculateSharpeForPeriod(prices, TRADING_DAYS_WEEK, estimator),
     lastMonth |->
         calculateSharpeForPeriod(prices, TRADING_DAYS_MONTH, estimator),
     lastQuarter |->
         calculateSharpeForPeriod(prices, TRADING_DAYS_QUARTER, estimator),
     lastSemester |->
         calculateSharpeForPeriod(prices, TRADING_DAYS_SEMESTER, estimator),
     lastYear |->
         calculateSharpeForPeriod(prices, TRADING_DAYS_YEAR, estimator)]

\* ---------------------------------------------------------------- state
VARIABLES
    historicalData,   \* SpecSharpe: the price series handed to the engine
    lookback,         \* SpecSharpe: the lookback handed to the engine
    stdDevEstimator,  \* which estimator the statistics package implements
    metrics,          \* <<>> or <<r>>: what calculateSharpeForPeriod returned
    enhanced,         \* what the calls of enhanceWithSharpeMetrics returned
    multi,            \* <<>> or <<r>>: what calculateMultiPeriodSharpe returned
    returnsSeries     \* <<>> or <<r>>: what calculateReturns returned

sharpeVars == <<historicalData, lookback, stdDevEstimator, metrics, enhanced,
                multi, returnsSeries>>

VARIABLES
    store,            \* the data cache behind unstable_cache: key -> <<>> or <<entry>>
    now,              \* the clock, in seconds
    upstream,         \* the price source, per ticker: "up", "down" or "empty"
    upstreamChanges,  \* how often the price source changed
    calls,            \* the asynchronous calls of fetchSingleStock / getCached
    computeCalls,     \* per key, how often the compute function was invoked
    revalidating,     \* per key, background revalidations in flight
    batch,            \* the fetchMultipleStocks call of handleStockDataRequest
    invalidated,      \* the tags handleCacheInvalidation answered success for
    cacheInjected     \* whether the callers hand nextCache to the service

cacheVars == <<store, now, upstream, upstreamChanges, calls, computeCalls,
               revalidating, batch, invalidated, cacheInjected>>

VARIABLES
    text,             \* the free-text ticker input handed to the validator
    maxCount,         \* the maxCount handed to validateAndParseTickerInput
    body,             \* the lookback argument, or the parsed request body
    parsed,           \* <<>> or <<r>>: what parseTickerInput returned
    validation,       \* <<>> or <<r>>: what the validator called last returned
    storeLookback,    \* the lookback kept by the useTickers store
    setCalls,         \* how often setLookback was called
    response,         \* 0, or the status the route answered with
    fetchStarted      \* <<>> or <<tickers>>: what fetchMultipleStocks was given

boundaryVars == <<text, maxCount, body, parsed, validation, storeLookback,
                  setCalls, response, fetchStarted>>

VARIABLES
    currentPrice,     \* SpecTrailingReturn: the arguments of
    pastPrice,        \*   calculateTrailingReturn
    trailing,         \* <<>> or <<r>>: what calculateTrailingReturn returned
    samples,          \* SpecStdDev: the values handed to calculateStandardDeviation
    deviation         \* <<>> or <<r>>: how calculateStandardDeviation ended

engineVars == <<currentPrice, pastPrice, trailing, samples, deviation>>

VARIABLES
    delivered,        \* SpecSharpeRoute: per ticker, the bars fetchHistoricalData returned
    stock,            \* per ticker, <<>> or <<r>>: what fetchSingleStock returned
    chronological,    \* per ticker, <<>> or <<data>>: what sortChronological returned
    analysed,         \* per ticker, <<>> or <<r>>: the row of the route's results
    steps             \* per ticker, the steps taken so far, in order

routeVars == <<delivered, stock, chronological, analysed, steps>>

VARIABLES
    storeTickers,     \* SpecWatchList: the tickers kept by the useTickers store
    storeCalls,       \* how many calls the store has handled
    lastCall          \* the last call of the store, and whether it was refused

watchVars == <<storeTickers, storeCalls, lastCall>>

VARIABLES
    watchList,          \* SpecSharpeCalculations: the tickers the hook was last given
    results,            \* the rows of useSharpeCalculations
    fetchedTickersRef,  \* fetchedTickersRef.current
    inflight,           \* the fetches of /api/stock that have not settled
    nextFetch,          \* the number the next fetch gets
    listChanges,        \* how often the effect has run
    fetchesSinceListed  \* per ticker, the fetches started since it was last off the list

hookVars == <<watchList, results, fetchedTickersRef, inflight, nextFetch,
              listChanges, fetchesSinceListed>>

otherVars == <<engineVars, routeVars, watchVars, hookVars>>

vars == <<sharpeVars, cacheVars, boundaryVars, otherVars>>

\* A chronological series with the given closes: one bar a day.
PointsOf(closes) ==
    [i \in 1..Len(closes) |->
        [date |-> i, close |-> closes[i], open |-> closes[i],
         high |-> closes[i], low |-> closes[i], volume |-> 1000]]

SeqsUpTo(S, n) == UNION {[1..k -> S] : k \in 0..n}

Lookbacks == (1 - NonPositiveLookbacks)..MaxLookback

\* The series SpecSharpe hands to the engine.
InputSeries == {PointsOf(c) : c \in SeqsUpTo(Prices, MaxLen)}

\* ------------------------------------------------ domain/stock/transformer
\* Mutant: only the close is tested.
filterValidPrices_CloseOnly(data) ==
    SelectSeq(data, LAMBDA price : ~IsNaN(price.close) /\ price.close > 0)

filterValidPrices(data) ==
    SelectSeq(data, LAMBDA price :
        /\ ~IsNaN(price.close) /\ price.close > 0
        /\ ~IsNaN(price.open) /\ price.open > 0
        /\ ~IsNaN(price.volume) /\ price.volume >= 0)

\* The comparator of the two date sorts: a is ordered before b.
DateBefore(a, b, newestFirst) ==
    IF newestFirst THEN a.date > b.date ELSE a.date < b.date

\* x placed into the sorted sequence s behind every element that the
\* comparator does not order after it (Array.prototype.sort is stable).
RECURSIVE InsertSorted(_, _, _)
InsertSorted(x, s, newestFirst) ==
    IF s = <<>> THEN <<x>>
    ELSE IF DateBefore(x, Head(s), newestFirst) THEN <<x>> \o s
    ELSE <<Head(s)>> \o InsertSorted(x, Tail(s), newestFirst)

RECURSIVE SortByDate(_, _)
SortByDate(s, newestFirst) ==
    IF s = <<>> THEN <<>>
    ELSE InsertSorted(s[Len(s)],
                      SortByDate(SubSeq(s, 1, Len(s) - 1), newestFirst),
                      newestFirst)

\* Mutant: the copy is returned unsorted.
sortChronological_Unsorted(data) == data

\* (a, b) => time(a) - time(b): oldest first.
sortChronological(data) == SortByDate(data, FALSE)

\* (a, b) => time(b) - time(a): newest first.
sortReverseChronological(data) == SortByDate(data, TRUE)

\* ------------------------------------- services/stockData/yahooFinanceAdapter
Tickers == {"AAPL", "MSFT"}

\* x || 0
OrZero(x) == IF IsNaN(x) THEN 0 ELSE x

Quote(date, close, open, volume) ==
    [date |-> date, close |-> close, open |-> open, high |-> open,
     low |-> open, volume |-> volume]

\* What yahooFinance.historical answers for a ticker while the source is up:
\* bars out of order, some without a close, an open or a volume, one with a
\* negative volume.
RawQuotes(ticker) ==
    IF ticker = "AAPL"
    THEN <<Quote(2, 100, 100, 10), Quote(1, NaN, 50, 10), Quote(3, 50, 100, 0),
           Quote(4, 50, 0, 10)>>
    ELSE <<Quote(1, 50, 50, 10), Quote(4, 100, 50, -5), Quote(3, 100, 50, NaN),
           Quote(2, 100, NaN, 10)>>

\* What yahooFinance.historical resolves with: the bars, or none at all.
UpstreamAnswer(ticker, source) ==
    IF source = "empty" THEN <<>> ELSE RawQuotes(ticker)

\* fetchHistoricalData: the mapped quotes, or [] when the source throws.
fetchHistoricalData(ticker, source) ==
    IF source = "down" THEN <<>>
    ELSE [i \in 1..Len(UpstreamAnswer(ticker, source)) |->
             LET q == UpstreamAnswer(ticker, source)[i]
             IN  [date |-> q.date, close |-> OrZero(q.close),
                  open |-> OrZero(q.open), high |-> OrZero(q.high),
                  low |-> OrZero(q.low), volume |-> OrZero(q.volume)]]

\* ---------------------------------------- services/stockData/stockDataService
REVALIDATE == 3600

ErrorResult(ticker) ==
    [ticker |-> ticker, historicalData |-> <<>>, daysCount |-> 0,
     error |-> "No data available"]

\* Mutant: an empty answer is reported like any other, without an error.
fetchFn_NoEmptyCheck(ticker, source) ==
    LET data == fetchHistoricalData(ticker, source)
        sortedPrices == sortReverseChronological(filterValidPrices(data))
    IN  [ticker |-> ticker, historicalData |-> sortedPrices,
         daysCount |-> Len(sortedPrices)]

\* fetchFn of fetchSingleStock, given what the price source answers now.
fetchFn(ticker, source) ==
    LET data == fetchHistoricalData(ticker, source)
        sortedPrices == sortReverseChronological(filterValidPrices(data))
    IN  IF Len(data) = 0 THEN ErrorResult(ticker)
        ELSE [ticker |-> ticker, historicalData |-> sortedPrices,
              daysCount |-> Len(sortedPrices)]

\* fetchFn of fetchSingleStock, given what fetchHistoricalData returned.
fetchFnOn(ticker, data) ==
    LET sortedPrices == sortReverseChronological(filterValidPrices(data))
    IN  IF Len(data) = 0 THEN ErrorResult(ticker)
        ELSE [ticker |-> ticker, historicalData |-> sortedPrices,
              daysCount |-> Len(sortedPrices)]

StockKey(ticker) == <<"stock-data", ticker>>
StockTags(ticker) == {<<"stock-data">>, <<"stock", ticker>>}

\* A direct client of nextCache.getCached, whose compute may throw.
GenericKey == <<"generic">>
GenericTags == {<<"generic">>}
GenericValue(n) == [payload |-> n]

Keys == {StockKey(t) : t \in Tickers} \cup {GenericKey}
Tags == UNION {StockTags(t) : t \in Tickers} \cup GenericTags

\* ------------------------------------------- adapters/cache/nextCacheAdapter
CallIds == 1..NCalls

IdleCall ==
    [pc |-> "idle", kind |-> "none", key |-> <<>>, useCache |-> FALSE,
     found |-> "none", result |-> <<>>, raised |-> "none"]

IdleBatch ==
    [pc |-> "idle", tickers |-> <<>>, children |-> <<>>, results |-> <<>>,
     status |-> 0]

CacheInit ==
    /\ store = [k \in Keys |-> <<>>]
    /\ now = 0
    /\ upstream = [t \in Tickers |-> "up"]
    /\ upstreamChanges = 0
    /\ calls = [c \in CallIds |-> IdleCall]
    /\ computeCalls = [k \in Keys |-> 0]
    /\ revalidating = [k \in Keys |-> 0]
    /\ batch = IdleBatch
    /\ invalidated = {}
    /\ cacheInjected \in BOOLEAN

\* The entry unstable_cache writes for a computed value.
Entry(value, tags, revalidate, at) ==
    [value |-> value, tags |-> tags, revalidate |-> revalidate, storedAt |-> at]

Present(k) == store[k] # <<>>
IsStale(k) == Present(k) /\ now - store[k][1].storedAt >= store[k][1].revalidate
IsFresh(k) == Present(k) /\ ~IsStale(k)

TagsOf(k) == IF k = GenericKey THEN GenericTags ELSE StockTags(k[2])

GenericValues == {GenericValue(1), GenericValue(2)}

\* Call ids are interchangeable: they are handed out in order.
CanStart(c) ==
    /\ calls[c].pc = "idle"
    /\ \A d \in CallIds : d < c => calls[d].pc # "idle"

\* The call record right after fetchSingleStock(ticker, cache) was invoked:
\* with a cache it waits for the cache lookup of getCached, without one
\* fetchFn is already running.
StartedStockCall(ticker, useCache) ==
    [IdleCall EXCEPT !.pc = IF useCache THEN "lookup" ELSE "computing",
                     !.kind = "stock",
                     !.key = StockKey(ticker),
                     !.useCache = useCache]

Bump(counter, k) == [counter EXCEPT ![k] = @ + 1]

\* fetchSingleStock(ticker, cache) is invoked.
StartFetchSingleStock(c, ticker) ==
    /\ CanStart(c)
    /\ calls' = [calls EXCEPT ![c] = StartedStockCall(ticker, cacheInjected)]
    /\ computeCalls' = IF cacheInjected THEN computeCalls
                       ELSE Bump(computeCalls, StockKey(ticker))
    /\ UNCHANGED <<store, now, upstream, upstreamChanges, revalidating,
                   batch, invalidated, cacheInjected>>
    /\ UNCHANGED <<sharpeVars, boundaryVars, otherVars>>

\* nextCache.getCached(fn, {key, tags, revalidate}) is invoked by another
\* client, with a compute function that may throw.
StartGetCached(c) ==
    /\ CanStart(c)
    /\ calls' = [calls EXCEPT ![c] =
                    [IdleCall EXCEPT !.pc = "lookup", !.kind = "generic",
                                     !.key = GenericKey, !.useCache = TRUE]]
    /\ UNCHANGED <<store, now, upstream, upstreamChanges, computeCalls,
                   revalidating, batch, invalidated, cacheInjected>>
    /\ UNCHANGED <<sharpeVars, boundaryVars, otherVars>>

\* cachedFn() of unstable_cache reads the data cache.  No entry: the compute
\* function is invoked.  A fresh entry: its value is returned.  A stale
\* entry: next/cache either computes anew (outside a request scope) or
\* returns the stale value and revalidates in the background (inside one).
\* The adapter keeps no registry of computes in flight.
LookupMiss(c) ==
    LET k == calls[c].key
    IN  /\ calls[c].pc = "lookup"
        /\ ~Present(k)
        /\ calls' = [calls EXCEPT ![c].pc = "computing", ![c].found = "miss"]
        /\ computeCalls' = Bump(computeCalls, k)
        /\ UNCHANGED <<store, now, upstream, upstreamChanges, revalidating,
                       batch, invalidated, cacheInjected>>
        /\ UNCHANGED <<sharpeVars, boundaryVars, otherVars>>

\* LookupHit with the stored value ignored: compute runs although the entry
\* is fresh.
LookupHit_AlwaysCompute(c) ==
    LET k == calls[c].key
    IN  /\ calls[c].pc = "lookup"
        /\ IsFresh(k)
        /\ calls' = [calls EXCEPT ![c].pc = "computing", ![c].found = "expired"]
        /\ computeCalls' = Bump(computeCalls, k)
        /\ UNCHANGED <<store, now, upstream, upstreamChanges,
                       revalidating, batch, invalidated, cacheInjected>>
        /\ UNCHANGED <<sharpeVars, boundaryVars, otherVars>>

LookupHit(c) ==
    LET k == calls[c].key
    IN  /\ calls[c].pc = "lookup"
        /\ IsFresh(k)
        /\ calls' = [calls EXCEPT ![c].pc = "done", ![c].found = "hit",
                                  ![c].result = <<store[k][1].value>>]
        /\ UNCHANGED <<store, now, upstream, upstreamChanges, computeCalls,
                       revalidating, batch, invalidated, cacheInjected>>
        /\ UNCHANGED <<sharpeVars, boundaryVars, otherVars>>

LookupExpiredRecompute(c) ==
    LET k == calls[c].key
    IN  /\ calls[c].pc = "lookup"
        /\ IsStale(k)
        /\ calls' = [calls EXCEPT ![c].pc = "computing",
                                  ![c].found = "expired"]
        /\ computeCalls' = Bump(computeCalls, k)
        /\ UNCHANGED <<store, now, upstream, upstreamChanges, revalidating,
                       batch, invalidated, cacheInjected>>
        /\ UNCHANGED <<sharpeVars, boundaryVars, otherVars>>

LookupExpiredStale(c) ==
    LET k == calls[c].key
    IN  /\ calls[c].pc = "lookup"
        /\ IsStale(k)
        /\ calls' = [calls EXCEPT ![c].pc = "done", ![c].found = "stale",
                                  ![c].result = <<store[k][1].value>>]
        /\ computeCalls' = Bump(computeCalls, k)
        /\ revalidating' = Bump(revalidating, k)
        /\ UNCHANGED <<store, now, upstream, upstreamChanges, batch,
                       invalidated, cacheInjected>>
        /\ UNCHANGED <<sharpeVars, boundaryVars, otherVars>>

\* unstable_cache itself rejects (no incremental cache, a failing cache
\* handler): getCached rejects, and so does fetchSingleStock, which awaits
\* nothing and catches nothing.
CacheFault(c) ==
    /\ calls[c].pc = "lookup"
    /\ calls' = [calls EXCEPT ![c].pc = "rejected", ![c].raised = "cache"]
    /\ UNCHANGED <<store, now, upstream, upstreamChanges, computeCalls,
                   revalidating, batch, invalidated, cacheInjected>>
    /\ UNCHANGED <<sharpeVars, boundaryVars, otherVars>>

\* What the compute function of a call can return now.
ComputedValues(kind, k) ==
    IF kind = "stock" THEN {fetchFn(k[2], upstream[k[2]])} ELSE GenericValues

\* Mutant: a record that carries an error is handed to the caller but not
\* stored.
ComputeReturn_SkipErrors(c) ==
    LET k == calls[c].key
    IN  /\ calls[c].pc = "computing"
        /\ \E v \in ComputedValues(calls[c].kind, k) :
              /\ calls' = [calls EXCEPT ![c].pc = "done", ![c].result = <<v>>]
              /\ store' = IF calls[c].useCache /\ "error" \notin DOMAIN v
                          THEN [store EXCEPT ![k] =
                                   <<Entry(v, TagsOf(k), REVALIDATE, now)>>]
                          ELSE store
        /\ UNCHANGED <<now, upstream, upstreamChanges, computeCalls,
                       revalidating, batch, invalidated, cacheInjected>>
        /\ UNCHANGED <<sharpeVars, boundaryVars, otherVars>>

\* The compute function returns: with a cache the value is stored under the
\* key with the tags and the revalidation time, and handed to the caller.
ComputeReturn(c) ==
    LET k == calls[c].key
    IN  /\ calls[c].pc = "computing"
        /\ \E v \in ComputedValues(calls[c].kind, k) :
              /\ calls' = [calls EXCEPT ![c].pc = "done", ![c].result = <<v>>]
              /\ store' = IF calls[c].useCache
                          THEN [store EXCEPT ![k] =
                                   <<Entry(v, TagsOf(k), REVALIDATE, now)>>]
                          ELSE store
        /\ UNCHANGED <<now, upstream, upstreamChanges, computeCalls,
                       revalidating, batch, invalidated, cacheInjected>>
        /\ UNCHANGED <<sharpeVars, boundaryVars, otherVars>>

\* ComputeThrow with the failure stored as an entry of the key.
ComputeThrow_Poison(c) ==
    LET k == calls[c].key
    IN  /\ calls[c].pc = "computing"
        /\ calls[c].kind = "generic"
        /\ calls' = [calls EXCEPT ![c].pc = "rejected", ![c].raised = "compute"]
        /\ store' = [store EXCEPT ![k] =
                        <<Entry(GenericValue(0), TagsOf(k), REVALIDATE, now)>>]
        /\ UNCHANGED <<now, upstream, upstreamChanges, computeCalls,
                       revalidating, batch, invalidated, cacheInjected>>
        /\ UNCHANGED <<sharpeVars, boundaryVars, otherVars>>

\* The compute function throws (fetchFn of fetchSingleStock never does):
\* nothing is stored and getCached rejects.
ComputeThrow(c) ==
    /\ calls[c].pc = "computing"
    /\ calls[c].kind = "generic"
    /\ calls' = [calls EXCEPT ![c].pc = "rejected", ![c].raised = "compute"]
    /\ UNCHANGED <<store, now, upstream, upstreamChanges, computeCalls,
                   revalidating, batch, invalidated, cacheInjected>>
    /\ UNCHANGED <<sharpeVars, boundaryVars, otherVars>>

\* A background revalidation ends: its value replaces the entry, or its
\* failure is logged and nothing changes.
RevalidateReturn(k) ==
    /\ revalidating[k] > 0
    /\ revalidating' = [revalidating EXCEPT ![k] = @ - 1]
    /\ \E v \in ComputedValues(IF k = GenericKey THEN "generic" ELSE "stock", k) :
          store' = [store EXCEPT ![k] = <<Entry(v, TagsOf(k), REVALIDATE, now)>>]
    /\ UNCHANGED <<now, upstream, upstreamChanges, calls, computeCalls,
                   batch, invalidated, cacheInjected>>
    /\ UNCHANGED <<sharpeVars, boundaryVars, otherVars>>

RevalidateThrow(k) ==
    /\ revalidating[k] > 0
    /\ k = GenericKey
    /\ revalidating' = [revalidating EXCEPT ![k] = @ - 1]
    /\ UNCHANGED <<store, now, upstream, upstreamChanges, calls,
                   computeCalls, batch, invalidated, cacheInjected>>
    /\ UNCHANGED <<sharpeVars, boundaryVars, otherVars>>

\* NextCacheAdapter.invalidate is a no-op; handleCacheInvalidation answers
\* { success: true, tag }.
HandleCacheInvalidation(tag) ==
    /\ Cardinality(invalidated) < MaxInvalidations
    /\ tag \notin invalidated
    /\ invalidated' = invalidated \cup {tag}
    /\ UNCHANGED <<store, now, upstream, upstreamChanges, calls,
                   computeCalls, revalidating, batch, cacheInjected>>
    /\ UNCHANGED <<sharpeVars, boundaryVars, otherVars>>

\* ------------------------------------------------------------ environment
Tick ==
    /\ now < MaxTicks * TickSeconds
    /\ now' = now + TickSeconds
    /\ UNCHANGED <<store, upstream, upstreamChanges, calls, computeCalls,
                   revalidating, batch, invalidated, cacheInjected>>
    /\ UNCHANGED <<sharpeVars, boundaryVars, otherVars>>

UpstreamChange(ticker) ==
    /\ upstreamChanges < MaxUpstreamChanges
    /\ upstreamChanges' = upstreamChanges + 1
    /\ \E to \in {"up", "down", "empty"} \ {upstream[ticker]} :
          upstream' = [upstream EXCEPT ![ticker] = to]
    /\ UNCHANGED <<store, now, calls, computeCalls, revalidating, batch,
                   invalidated, cacheInjected>>
    /\ UNCHANGED <<sharpeVars, boundaryVars, otherVars>>

\* ------------------------------------------------------ fetchMultipleStocks
BatchTickers == UNION {[1..n -> Tickers] : n \in 1..MaxBatch}

FirstIdle == IF \E c \in CallIds : calls[c].pc = "idle"
             THEN CHOOSE c \in CallIds : CanStart(c)
             ELSE NCalls + 1

\* fetchMultipleStocks(tickers, cache): tickers.map invokes fetchSingleStock
\* for every ticker, in order, before anything else runs.
StartFetchMultipleStocks(tickers) ==
    LET children == [i \in 1..Len(tickers) |-> FirstIdle + i - 1]
        childOf(c) == CHOOSE i \in 1..Len(tickers) : children[i] = c
    IN  /\ batch.pc = "idle"
        /\ FirstIdle + Len(tickers) - 1 <= NCalls
        /\ batch' = [IdleBatch EXCEPT !.pc = "pending", !.tickers = tickers,
                                      !.children = children]
        /\ calls' = [c \in CallIds |->
                        IF \E i \in 1..Len(tickers) : children[i] = c
                        THEN StartedStockCall(tickers[childOf(c)], cacheInjected)
                        ELSE calls[c]]
        /\ computeCalls' =
              [k \in Keys |->
                  computeCalls[k] +
                  IF cacheInjected THEN 0
                  ELSE Cardinality({i \in 1..Len(tickers) :
                                       StockKey(tickers[i]) = k})]
        /\ UNCHANGED <<store, now, upstream, upstreamChanges, revalidating,
                       invalidated, cacheInjected>>
        /\ UNCHANGED <<sharpeVars, boundaryVars, otherVars>>

\* Promise.all fulfils once every promise has: the results in input order.
PromiseAllResolve ==
    /\ batch.pc = "pending"
    /\ \A i \in 1..Len(batch.children) : calls[batch.children[i]].pc = "done"
    /\ batch' = [batch EXCEPT
                    !.pc = "resolved",
                    !.results = [i \in 1..Len(batch.children) |->
                                    calls[batch.children[i]].result[1]],
                    !.status = 200]
    /\ UNCHANGED <<store, now, upstream, upstreamChanges, calls,
                   computeCalls, revalidating, invalidated, cacheInjected>>
    /\ UNCHANGED <<sharpeVars, boundaryVars, otherVars>>

\* Promise.all rejects as soon as one promise has; handleStockDataRequest
\* answers 500.
PromiseAllReject ==
    /\ batch.pc = "pending"
    /\ \E i \in 1..Len(batch.children) :
          calls[batch.children[i]].pc = "rejected"
    /\ batch' = [batch EXCEPT !.pc = "rejected", !.status = 500]
    /\ UNCHANGED <<store, now, upstream, upstreamChanges, calls,
                   computeCalls, revalidating, invalidated, cacheInjected>>
    /\ UNCHANGED <<sharpeVars, boundaryVars, otherVars>>

\* ------------------------------------------------------------------- Spec
\* --------------------------------------------------- domain/stock/validator
\* A string is the sequence of its characters.
MAX_TICKERS_PER_REQUEST == 10
LOOKBACK_MIN == 1
LOOKBACK_MAX == 1000

UpperLetters ==
    {"A", "B", "C", "D", "E", "F", "G", "H", "I", "J", "K", "L", "M", "N",
     "O", "P", "Q", "R", "S", "T", "U", "V", "W", "X", "Y", "Z"}

\* String.prototype.toUpperCase on the letters the inputs use.
UpperChar(c) ==
    CASE c = "a" -> "A"
      [] c = "g" -> "G"
      [] c = "l" -> "L"
      [] c = "o" -> "O"
      [] c = "p" -> "P"
      [] OTHER -> c

toUpperCase(str) == [i \in 1..Len(str) |-> UpperChar(str[i])]

IsSpace(c) == c = " "

RECURSIVE TrimStart(_)
TrimStart(str) ==
    IF str # <<>> /\ IsSpace(Head(str)) THEN TrimStart(Tail(str)) ELSE str

RECURSIVE TrimEnd(_)
TrimEnd(str) ==
    IF str # <<>> /\ IsSpace(str[Len(str)])
    THEN TrimEnd(SubSeq(str, 1, Len(str) - 1))
    ELSE str

\* String.prototype.trim
Trim(str) == TrimEnd(TrimStart(str))

\* String.prototype.split(','): the items from position i on, cur being the
\* item read so far.
RECURSIVE SplitFrom(_, _, _)
SplitFrom(str, i, cur) ==
    IF i > Len(str) THEN <<cur>>
    ELSE IF str[i] = "," THEN <<cur>> \o SplitFrom(str, i + 1, <<>>)
    ELSE SplitFrom(str, i + 1, Append(cur, str[i]))

Split(str) == SplitFrom(str, 1, <<>>)

\* Array.from(new Set(items)): each value once, in insertion order.
RECURSIVE Distinct(_, _)
Distinct(items, seen) ==
    IF items = <<>> THEN seen
    ELSE IF \E i \in 1..Len(seen) : seen[i] = Head(items)
         THEN Distinct(Tail(items), seen)
         ELSE Distinct(Tail(items), Append(seen, Head(items)))

\* TICKER_REGEX = /^[A-Z]{1,5}$/
TICKER_REGEX(ticker) ==
    /\ Len(ticker) >= 1
    /\ Len(ticker) <= 5
    /\ \A i \in 1..Len(ticker) : ticker[i] \in UpperLetters

validateTicker(ticker) ==
    IF ticker = <<>> THEN FALSE ELSE TICKER_REGEX(ticker)

validateTickerArray(tickers, maxCountArg) ==
    IF Len(tickers) = 0
    THEN [valid |-> FALSE, error |-> "At least one ticker is required"]
    ELSE IF Len(tickers) > maxCountArg
    THEN [valid |-> FALSE, error |-> "Maximum tickers allowed"]
    ELSE IF SelectSeq(tickers, LAMBDA t : ~validateTicker(t)) # <<>>
    THEN [valid |-> FALSE, error |-> "Invalid ticker symbols"]
    ELSE [valid |-> TRUE, data |-> tickers]

\* Mutant: duplicates are kept.
parseTickerInput_NoDedupe(input) ==
    IF input = <<>> THEN <<>>
    ELSE LET items == Split(input)
             cleaned == [i \in 1..Len(items) |-> toUpperCase(Trim(items[i]))]
         IN  SelectSeq(cleaned, LAMBDA t : Len(t) > 0)

parseTickerInput(input) ==
    IF input = <<>> THEN <<>>
    ELSE LET items == Split(input)
             cleaned == [i \in 1..Len(items) |-> toUpperCase(Trim(items[i]))]
             tickers == SelectSeq(cleaned, LAMBDA t : Len(t) > 0)
         IN  Distinct(tickers, <<>>)

validateAndParseTickerInput(input, maxCountArg) ==
    validateTickerArray(parseTickerInput(input), maxCountArg)

\* A JavaScript value handed in as a lookback: a number, kept in tenths, NaN,
\* or a string that is no number.
Num(tenths) == [kind |-> "number", tenths |-> tenths]
NaNValue == [kind |-> "NaN"]
StringValue == [kind |-> "string"]

IsNumber(x) == x.kind = "number"
IsInteger(x) == IsNumber(x) /\ x.tenths % 10 = 0

\* Math.floor and Math.round of a number kept in tenths.
MathFloor(tenths) == tenths \div 10
MathRound(tenths) == (tenths + 5) \div 10

validateLookback(x) ==
    IF ~IsNumber(x)
    THEN [valid |-> FALSE, error |-> "Lookback must be a number"]
    ELSE IF x.tenths < LOOKBACK_MIN * 10
    THEN [valid |-> FALSE, error |-> "Lookback must be at least LOOKBACK_MIN"]
    ELSE IF x.tenths > LOOKBACK_MAX * 10
    THEN [valid |-> FALSE, error |-> "Lookback cannot exceed LOOKBACK_MAX"]
    ELSE [valid |-> TRUE, data |-> MathFloor(x.tenths)]

\* ------------------------------------------------------ hooks/useLocalStore
\* setLookback: Math.min(1000, Math.max(1, Math.round(lookback || 1))); the
\* result is the lookback the store keeps (NaN for a string that is no
\* number).
setLookback(x) ==
    LET orOne == IF IsNumber(x) /\ x.tenths # 0 THEN x
                 ELSE IF x.kind = "string" THEN x
                 ELSE Num(10)
        rounded == IF IsNumber(orOne) THEN MathRound(orOne.tenths) ELSE NaN
        atLeast == IF IsNaN(rounded) THEN NaN
                   ELSE IF rounded < 1 THEN 1 ELSE rounded
    IN  IF IsNaN(atLeast) THEN NaN
        ELSE IF atLeast > 1000 THEN 1000 ELSE atLeast

\* setLookback of the store that consults validateLookback: an invalid
\* lookback leaves the state as it is.
setLookbackValidated(state, x) ==
    LET v == validateLookback(x)
    IN  IF ~v.valid \/ v.data = 0 THEN state ELSE v.data

\* Mutant: a ticker already on the list is added again.
addTicker_NoDuplicateCheck(tickers, ticker) ==
    LET upperTicker == Trim(toUpperCase(ticker))
    IN  IF ~validateTicker(upperTicker) THEN tickers
        ELSE Append(tickers, upperTicker)

\* addTicker of the store that consults validateTicker: the list it leaves.
addTicker(tickers, ticker) ==
    LET upperTicker == Trim(toUpperCase(ticker))
    IN  IF ~validateTicker(upperTicker) THEN tickers
        ELSE IF \E i \in 1..Len(tickers) : tickers[i] = upperTicker THEN tickers
        ELSE Append(tickers, upperTicker)

\* addTicker returned the state it was given.
addTickerRefuses(tickers, ticker) ==
    LET upperTicker == Trim(toUpperCase(ticker))
    IN  \/ ~validateTicker(upperTicker)
        \/ \E i \in 1..Len(tickers) : tickers[i] = upperTicker

\* state.tickers.filter((t) => t !== ticker)
removeTicker(tickers, ticker) == SelectSeq(tickers, LAMBDA t : t # ticker)

\* setLookback returned the state it was given.
setLookbackRefuses(x) ==
    ~validateLookback(x).valid \/ validateLookback(x).data = 0

\* -------------------------------------------------- lib/middleware/validation
\* z.array(z.string()).min(1).max(MAX_TICKERS_PER_REQUEST)
TickersSchema(tickers) ==
    /\ Len(tickers) >= 1
    /\ Len(tickers) <= MAX_TICKERS_PER_REQUEST

\* z.number().int().min(LOOKBACK_MIN).max(LOOKBACK_MAX)
LookbackSchema(x) ==
    /\ IsNumber(x)
    /\ IsInteger(x)
    /\ x.tenths >= LOOKBACK_MIN * 10
    /\ x.tenths <= LOOKBACK_MAX * 10

validateStockRequest(b) ==
    IF TickersSchema(b.tickers)
    THEN [valid |-> TRUE, data |-> [tickers |-> b.tickers]]
    ELSE [valid |-> FALSE, error |-> "Validation failed"]

validateSharpeRequest(b) ==
    IF TickersSchema(b.tickers) /\ LookbackSchema(b.lookback)
    THEN [valid |-> TRUE,
          data |-> [tickers |-> b.tickers, lookback |-> b.lookback]]
    ELSE [valid |-> FALSE, error |-> "Validation failed"]

\* Nothing has been handed to the validators, the store or the routes.
BoundaryIdle ==
    /\ text = <<>>
    /\ maxCount = MAX_TICKERS_PER_REQUEST
    /\ body = Num(2500)
    /\ parsed = <<>>
    /\ validation = <<>>
    /\ storeLookback = 250
    /\ setCalls = 0
    /\ response = 0
    /\ fetchStarted = <<>>

\* No pure function of the engine has been called on its own.
EngineIdle ==
    /\ currentPrice = 0
    /\ pastPrice = 0
    /\ trailing = <<>>
    /\ samples = <<>>
    /\ deviation = <<>>

\* The Sharpe route has not been requested.
RouteIdle ==
    /\ delivered = [t \in Tickers |-> <<>>]
    /\ stock = [t \in Tickers |-> <<>>]
    /\ chronological = [t \in Tickers |-> <<>>]
    /\ analysed = [t \in Tickers |-> <<>>]
    /\ steps = [t \in Tickers |-> <<>>]

\* The initial state of the useTickers store (its lookback, 250, is
\* storeLookback), before any call.
WatchIdle ==
    /\ storeTickers = <<>>
    /\ storeCalls = 0
    /\ lastCall = [op |-> "none", refused |-> FALSE]

\* useSharpeCalculations before its effect has run.
HookIdle ==
    /\ watchList = <<>>
    /\ results = <<>>
    /\ fetchedTickersRef = {}
    /\ inflight = {}
    /\ nextFetch = 1
    /\ listChanges = 0
    /\ fetchesSinceListed = [t \in Tickers |-> 0]

OtherIdle == EngineIdle /\ RouteIdle /\ WatchIdle /\ HookIdle

SharpeIdle ==
    /\ historicalData = <<>>
    /\ lookback = 1
    /\ stdDevEstimator = "population"
    /\ metrics = <<>>
    /\ enhanced = <<>>
    /\ multi = <<>>
    /\ returnsSeries = <<>>

Init == SharpeIdle /\ CacheInit /\ BoundaryIdle /\ OtherIdle

Next ==
    \/ \E c \in CallIds, t \in Tickers : StartFetchSingleStock(c, t)
    \/ \E c \in CallIds : LookupMiss(c)
    \/ \E c \in CallIds : LookupHit(c)
    \/ \E c \in CallIds : LookupExpiredRecompute(c)
    \/ \E c \in CallIds : LookupExpiredStale(c)
    \/ \E c \in CallIds : CacheFault(c)
    \/ \E c \in CallIds : ComputeReturn(c)
    \/ \E k \in Keys : RevalidateReturn(k)
    \/ \E tag \in Tags : HandleCacheInvalidation(tag)
    \/ Tick
    \/ \E t \in Tickers : UpstreamChange(t)
    \/ \E ts \in BatchTickers : StartFetchMultipleStocks(ts)
    \/ PromiseAllResolve
    \/ PromiseAllReject

Spec == Init /\ [][Next]_vars

\* ---------------------------------------------------------- SpecGetCached
\* nextCache.getCached used directly, with a compute function that may throw.
InitGetCached ==
    /\ SharpeIdle
    /\ CacheInit
    /\ BoundaryIdle
    /\ OtherIdle
    /\ cacheInjected

NextGetCached ==
    \/ \E c \in CallIds : StartGetCached(c)
    \/ \E c \in CallIds : LookupMiss(c)
    \/ \E c \in CallIds : LookupHit(c)
    \/ \E c \in CallIds : LookupExpiredRecompute(c)
    \/ \E c \in CallIds : LookupExpiredStale(c)
    \/ \E c \in CallIds : CacheFault(c)
    \/ \E c \in CallIds : ComputeReturn(c)
    \/ \E c \in CallIds : ComputeThrow(c)
    \/ \E k \in Keys : RevalidateReturn(k)
    \/ \E k \in Keys : RevalidateThrow(k)
    \/ Tick

SpecGetCached == InitGetCached /\ [][NextGetCached]_vars

\* ------------------------------------------------------- claims on the cache
CachedCalls(k) == {c \in CallIds : calls[c].useCache /\ calls[c].key = k}

\* Computes in flight for a key on behalf of getCached callers.
InFlight(k) ==
    Cardinality({c \in CachedCalls(k) : calls[c].pc = "computing"})
        + revalidating[k]

\* C3: concurrent getCached calls for one key that find no entry collapse
\* into one compute: at most one compute is in flight per key, compute is
\* invoked once for all of them, and they all receive the same value.
C3_SingleFlight ==
    \A k \in Keys :
        /\ InFlight(k) <= 1
        /\ Cardinality({c \in CachedCalls(k) : calls[c].found = "miss"}) <= 1
        /\ \A c, d \in CachedCalls(k) :
              (/\ calls[c].found = "miss" /\ calls[c].pc = "done"
               /\ calls[d].found = "miss" /\ calls[d].pc = "done")
                  => calls[c].result = calls[d].result

\* A call leaves the cache lookup of getCached without unstable_cache failing.
LookupStep(c) ==
    /\ calls[c].pc = "lookup"
    /\ calls'[c].pc # "lookup"
    /\ calls'[c].raised = "none"

\* The compute of a getCached call returns.
ComputeStep(c) ==
    /\ calls[c].pc = "computing"
    /\ calls[c].useCache
    /\ calls'[c].pc = "done"

\* A fresh entry is returned as it is, compute is not invoked.
HitStep(c) ==
    LET k == calls[c].key
    IN  (LookupStep(c) /\ IsFresh(k)) =>
            /\ calls'[c].pc = "done"
            /\ calls'[c].result = <<store[k][1].value>>
            /\ computeCalls' = computeCalls
            /\ store' = store

\* Without an entry compute is invoked, once.
MissStep(c) ==
    LET k == calls[c].key
    IN  (LookupStep(c) /\ ~Present(k)) =>
            /\ calls'[c].pc = "computing"
            /\ computeCalls' = Bump(computeCalls, k)

\* The computed value is stored under the key with the tags and the
\* revalidation time, and returned.
StoreStep(c) ==
    LET k == calls[c].key
    IN  ComputeStep(c) =>
            /\ calls'[c].result # <<>>
            /\ store'[k] = <<Entry(calls'[c].result[1], TagsOf(k), REVALIDATE,
                                   now)>>
            /\ computeCalls' = computeCalls

\* Each getCached call that did not find a fresh entry invoked compute once,
\* and no other call did.
ComputeOncePerMiss ==
    \A k \in Keys :
        computeCalls[k] =
            Cardinality({c \in CallIds :
                /\ calls[c].key = k
                /\ \/ calls[c].found \in {"miss", "expired", "stale"}
                   \/ (~calls[c].useCache /\ calls[c].pc # "idle")})

C5_InvalidateExpires ==
    [][\A tag \in Tags :
         (tag \in invalidated' /\ tag \notin invalidated) =>
             \A k \in Keys :
                 (Present(k) /\ tag \in store[k][1].tags) => IsStale(k)']_vars

\* C7: when getCached raises during fetchSingleStock(ticker, cache),
\* fetchSingleStock does not raise: it returns the ticker's record with
\* error set and an empty series.
C7_FetchOneNeverRaises ==
    \A c \in CallIds :
        (calls[c].kind = "stock" /\ calls[c].raised # "none") =>
            /\ calls[c].pc = "done"
            /\ calls[c].result[1].ticker = calls[c].key[2]
            /\ "error" \in DOMAIN calls[c].result[1]
            /\ calls[c].result[1].historicalData = <<>>

BatchCompleted == batch.pc \in {"resolved", "rejected"}

\* C8: fetchMultipleStocks returns one result per input ticker, in input
\* order, result i for ticker i; each is what its own fetch produced: an
\* error with an empty series, or a series without an error.
C8_OneResultPerTicker ==
    BatchCompleted =>
        /\ batch.pc = "resolved"
        /\ Len(batch.results) = Len(batch.tickers)
        /\ \A i \in 1..Len(batch.tickers) :
              LET r == batch.results[i]
              IN  /\ r.ticker = batch.tickers[i]
                  /\ <<r>> = calls[batch.children[i]].result
                  /\ IF "error" \in DOMAIN r
                     THEN r.historicalData = <<>>
                     ELSE r.daysCount = Len(r.historicalData)

\* C9: fetchMultipleStocks completes only after every per-ticker fetch has
\* completed.
C9_WaitsForAll ==
    BatchCompleted =>
        \A i \in 1..Len(batch.children) :
            calls[batch.children[i]].pc \in {"done", "rejected"}

\* ------------------------------------------------ claims on a failing compute
Failed(c) == calls[c].raised = "compute"
FailStep(c) == ~Failed(c) /\ Failed(c)'

OnlyComputedValues ==
    /\ \A k \in Keys : Present(k) => store[k][1].value \in GenericValues
    /\ \A c \in CallIds : calls[c].pc = "done" => calls[c].result[1] \in GenericValues

InitSharpe ==
    /\ historicalData \in InputSeries
    /\ lookback \in Lookbacks
    /\ stdDevEstimator \in {"population", "sample"}
    /\ metrics = <<>>
    /\ enhanced = <<>>
    /\ multi = <<>>
    /\ returnsSeries = <<>>
    /\ CacheInit
    /\ BoundaryIdle
    /\ OtherIdle

CallCalculateSharpeForPeriod ==
    /\ metrics = <<>>
    /\ metrics' = <<calculateSharpeForPeriod(extractPrices(historicalData),
                                             lookback, stdDevEstimator)>>
    /\ UNCHANGED <<historicalData, lookback, stdDevEstimator, enhanced, multi, returnsSeries>>
    /\ UNCHANGED <<cacheVars, boundaryVars, otherVars>>

\* Mutant: the annotated points are written into the input series.
CallEnhanceWithSharpeMetrics_InPlace ==
    /\ Len(enhanced) < MaxEnhanceCalls
    /\ enhanced' = Append(enhanced,
                          enhanceWithSharpeMetrics(historicalData, lookback,
                                                   stdDevEstimator))
    /\ historicalData' = enhanceWithSharpeMetrics(historicalData, lookback,
                                                  stdDevEstimator)
    /\ UNCHANGED <<lookback, stdDevEstimator, metrics, multi, returnsSeries>>
    /\ UNCHANGED <<cacheVars, boundaryVars, otherVars>>

\* enhanceWithSharpeMetrics(historicalData, lookback): the result is a new
\* array of new objects (map and spread), the argument is not assigned to.
CallEnhanceWithSharpeMetrics ==
    /\ Len(enhanced) < MaxEnhanceCalls
    /\ enhanced' = Append(enhanced,
                          enhanceWithSharpeMetrics(historicalData, lookback,
                                                   stdDevEstimator))
    /\ UNCHANGED <<historicalData, lookback, stdDevEstimator, metrics, multi, returnsSeries>>
    /\ UNCHANGED <<cacheVars, boundaryVars, otherVars>>

NextSharpe ==
    \/ CallCalculateSharpeForPeriod
    \/ CallEnhanceWithSharpeMetrics

SpecSharpe == InitSharpe /\ [][NextSharpe]_vars

\* ------------------------------------------------------------ SpecReturns
CallCalculateReturns ==
    /\ returnsSeries = <<>>
    /\ returnsSeries' = <<calculateReturns(extractPrices(historicalData))>>
    /\ UNCHANGED <<historicalData, lookback, stdDevEstimator, metrics,
                   enhanced, multi>>
    /\ UNCHANGED <<cacheVars, boundaryVars, otherVars>>

NextReturns == CallCalculateReturns

SpecReturns == InitSharpe /\ [][NextReturns]_vars

\* ----------------------------------------------------- SpecTrailingReturn
\* The numbers handed to calculateTrailingReturn: negative, zero, positive,
\* and NaN.
PriceArguments ==
    {10 * d : d \in (-PriceSpan)..PriceSpan} \cup {1, 2, 5, 25, 100} \cup {NaN}

InitTrailingReturn ==
    /\ SharpeIdle
    /\ CacheInit
    /\ BoundaryIdle
    /\ RouteIdle
    /\ WatchIdle
    /\ HookIdle
    /\ currentPrice \in PriceArguments
    /\ pastPrice \in PriceArguments
    /\ trailing = <<>>
    /\ samples = <<>>
    /\ deviation = <<>>

CallCalculateTrailingReturn ==
    /\ trailing = <<>>
    /\ trailing' = <<calculateTrailingReturn(currentPrice, pastPrice)>>
    /\ UNCHANGED <<currentPrice, pastPrice, samples, deviation>>
    /\ UNCHANGED <<sharpeVars, cacheVars, boundaryVars, routeVars, watchVars, hookVars>>

NextTrailingReturn == CallCalculateTrailingReturn

SpecTrailingReturn == InitTrailingReturn /\ [][NextTrailingReturn]_vars

\* ------------------------------------------------------------ SpecStdDev
\* The values handed to calculateStandardDeviation: returns in percent, NaN.
SampleValues == {-50, 0, 100, NaN}

InitStdDev ==
    /\ historicalData = <<>>
    /\ lookback = 1
    /\ stdDevEstimator \in {"population", "sample", "throwing"}
    /\ metrics = <<>>
    /\ enhanced = <<>>
    /\ multi = <<>>
    /\ returnsSeries = <<>>
    /\ CacheInit
    /\ BoundaryIdle
    /\ RouteIdle
    /\ WatchIdle
    /\ HookIdle
    /\ currentPrice = 0
    /\ pastPrice = 0
    /\ trailing = <<>>
    /\ samples \in SeqsUpTo(SampleValues, MaxSamples)
    /\ deviation = <<>>

CallCalculateStandardDeviation ==
    /\ deviation = <<>>
    /\ deviation' = <<calculateStandardDeviation(samples, stdDevEstimator)>>
    /\ UNCHANGED <<currentPrice, pastPrice, trailing, samples>>
    /\ UNCHANGED <<sharpeVars, cacheVars, boundaryVars, routeVars, watchVars, hookVars>>

NextStdDev == CallCalculateStandardDeviation

SpecStdDev == InitStdDev /\ [][NextStdDev]_vars

\* ------------------------------------------------------- SpecMultiPeriod
PeriodDays == {1, TRADING_DAYS_WEEK, TRADING_DAYS_MONTH, TRADING_DAYS_QUARTER,
               TRADING_DAYS_SEMESTER, TRADING_DAYS_YEAR}

\* Series lengths around the required length of each period.
LongLengths ==
    {n \in UNION {(2 * L - Margin)..(2 * L + Margin) : L \in PeriodDays} :
        n >= 0}

\* n closes: 50, and 100 on every k-th day.
PatternCloses(n, k) == [i \in 1..n |-> IF i % k = 0 THEN 100 ELSE 50]

InitMultiPeriod ==
    /\ historicalData \in
           {PointsOf(PatternCloses(n, k)) : n \in LongLengths, k \in 1..MaxPattern}
    /\ lookback = 1
    /\ stdDevEstimator \in {"population", "sample"}
    /\ metrics = <<>>
    /\ enhanced = <<>>
    /\ multi = <<>>
    /\ returnsSeries = <<>>
    /\ CacheInit
    /\ BoundaryIdle
    /\ OtherIdle

CallCalculateMultiPeriodSharpe(ticker) ==
    /\ multi = <<>>
    /\ returnsSeries = <<>>
    /\ multi' = <<calculateMultiPeriodSharpe(extractPrices(historicalData),
                                             ticker, stdDevEstimator)>>
    /\ UNCHANGED <<historicalData, lookback, stdDevEstimator, metrics,
                   enhanced, returnsSeries>>
    /\ UNCHANGED <<cacheVars, boundaryVars, otherVars>>

NextMultiPeriod == \E ticker \in Tickers : CallCalculateMultiPeriodSharpe(ticker)

SpecMultiPeriod == InitMultiPeriod /\ [][NextMultiPeriod]_vars

\* ------------------------------------------------------- SpecTickerInput
Chars == {"a", "A", "g", ",", " "}

\* "aapl, aapl, googl"
ScenarioText ==
    <<"a", "a", "p", "l", ",", " ", "a", "a", "p", "l", ",", " ",
      "g", "o", "o", "g", "l">>

\* "A,A, ... ,A": one ticker more often than a request may hold tickers.
RepeatedText ==
    [i \in 1..(2 * MAX_TICKERS_PER_REQUEST + 1) |->
        IF i % 2 = 1 THEN "A" ELSE ","]

\* "A,B, ... ,K": more distinct tickers than a request may hold.
ManyText ==
    [i \in 1..(2 * MAX_TICKERS_PER_REQUEST + 1) |->
        IF i % 2 = 0 THEN ","
        ELSE <<"A", "B", "C", "D", "E", "F", "G", "H", "I", "J", "K">>[(i + 1) \div 2]]

TextInputs == SeqsUpTo(Chars, MaxText) \cup {ScenarioText, RepeatedText, ManyText}

InitTickerInput ==
    /\ SharpeIdle
    /\ CacheInit
    /\ OtherIdle
    /\ text \in TextInputs
    /\ maxCount \in {1, 2, MAX_TICKERS_PER_REQUEST}
    /\ body = Num(2500)
    /\ parsed = <<>>
    /\ validation = <<>>
    /\ storeLookback = 250
    /\ setCalls = 0
    /\ response = 0
    /\ fetchStarted = <<>>

CallParseTickerInput ==
    /\ parsed = <<>>
    /\ parsed' = <<parseTickerInput(text)>>
    /\ UNCHANGED <<text, maxCount, body, validation, storeLookback, setCalls,
                   response, fetchStarted>>
    /\ UNCHANGED <<sharpeVars, cacheVars, otherVars>>

CallValidateAndParseTickerInput ==
    /\ validation = <<>>
    /\ validation' = <<validateAndParseTickerInput(text, maxCount)>>
    /\ UNCHANGED <<text, maxCount, body, parsed, storeLookback, setCalls,
                   response, fetchStarted>>
    /\ UNCHANGED <<sharpeVars, cacheVars, otherVars>>

NextTickerInput ==
    \/ CallParseTickerInput
    \/ CallValidateAndParseTickerInput

SpecTickerInput == InitTickerInput /\ [][NextTickerInput]_vars

\* ----------------------------------------------------------- SpecLookback
\* The lookbacks handed to validateLookback and setLookback: numbers in
\* tenths around the limits, whole and fractional, NaN and a string.
LookbackInputs ==
    {Num(t) : t \in {-10, 0, 5, 9, 10, 15, 25, 2500, 2504, 2505, 9995, 10000,
                     10001, 10005, 10010, 50000}}
        \cup {NaNValue, StringValue}

InitLookback ==
    /\ SharpeIdle
    /\ CacheInit
    /\ OtherIdle
    /\ text = <<>>
    /\ maxCount = MAX_TICKERS_PER_REQUEST
    /\ body \in LookbackInputs
    /\ parsed = <<>>
    /\ validation = <<>>
    /\ storeLookback = 250
    /\ setCalls = 0
    /\ response = 0
    /\ fetchStarted = <<>>

CallValidateLookback ==
    /\ validation = <<>>
    /\ validation' = <<validateLookback(body)>>
    /\ UNCHANGED <<text, maxCount, body, parsed, storeLookback, setCalls,
                   response, fetchStarted>>
    /\ UNCHANGED <<sharpeVars, cacheVars, otherVars>>

CallSetLookback ==
    /\ setCalls < MaxSetCalls
    /\ setCalls' = setCalls + 1
    /\ storeLookback' = setLookback(body)
    /\ UNCHANGED <<text, maxCount, body, parsed, validation, response,
                   fetchStarted>>
    /\ UNCHANGED <<sharpeVars, cacheVars, otherVars>>

CallSetLookbackValidated ==
    /\ setCalls < MaxSetCalls
    /\ setCalls' = setCalls + 1
    /\ storeLookback' = setLookbackValidated(storeLookback, body)
    /\ UNCHANGED <<text, maxCount, body, parsed, validation, response,
                   fetchStarted>>
    /\ UNCHANGED <<sharpeVars, cacheVars, otherVars>>

NextLookback ==
    \/ CallValidateLookback
    \/ CallSetLookback
    \/ CallSetLookbackValidated

SpecLookback == InitLookback /\ [][NextLookback]_vars

\* ------------------------------------------------------------ SpecRequest
\* Ticker strings a request may carry: well-formed, lower case, with a
\* digit, too long, empty.
RequestTickers ==
    {<<"A", "A", "P", "L">>, <<"a", "a", "p", "l">>, <<"A", "1">>,
     <<"G", "O", "O", "G", "L", "E">>, <<>>}

\* n tickers, "A" everywhere but at one position.
TickerList(n, ticker, pos) ==
    [i \in 1..n |-> IF i = pos THEN ticker ELSE <<"A">>]

RequestBodies ==
    {[tickers |-> TickerList(n, t, pos), lookback |-> x] :
        n \in 0..(MAX_TICKERS_PER_REQUEST + 1),
        t \in RequestTickers,
        pos \in {1, MAX_TICKERS_PER_REQUEST + 1},
        x \in {Num(0), Num(10), Num(25), Num(2500), Num(10000), Num(10010),
               NaNValue}}

InitRequest ==
    /\ SharpeIdle
    /\ CacheInit
    /\ OtherIdle
    /\ text = <<>>
    /\ maxCount = MAX_TICKERS_PER_REQUEST
    /\ body \in RequestBodies
    /\ parsed = <<>>
    /\ validation = <<>>
    /\ storeLookback = 250
    /\ setCalls = 0
    /\ response = 0
    /\ fetchStarted = <<>>

\* POST of the Sharpe route: validateSharpeRequest, then fetchMultipleStocks
\* and calculateMultiPeriodSharpe.
PostSharpe ==
    /\ response = 0
    /\ validation' = <<validateSharpeRequest(body)>>
    /\ IF validateSharpeRequest(body).valid
       THEN /\ fetchStarted' =
                   <<[route |-> "sharpe",
                      tickers |-> validateSharpeRequest(body).data.tickers]>>
            /\ response' = 200
       ELSE /\ fetchStarted' = fetchStarted
            /\ response' = 400
    /\ UNCHANGED <<text, maxCount, body, parsed, storeLookback, setCalls>>
    /\ UNCHANGED <<sharpeVars, cacheVars, otherVars>>

\* POST of the stock route: validateStockRequest, then
\* handleStockDataRequest.
PostStock ==
    /\ response = 0
    /\ validation' = <<validateStockRequest(body)>>
    /\ IF validateStockRequest(body).valid
       THEN /\ fetchStarted' =
                   <<[route |-> "stock",
                      tickers |-> validateStockRequest(body).data.tickers]>>
            /\ response' = 200
       ELSE /\ fetchStarted' = fetchStarted
            /\ response' = 400
    /\ UNCHANGED <<text, maxCount, body, parsed, storeLookback, setCalls>>
    /\ UNCHANGED <<sharpeVars, cacheVars, otherVars>>

\* POST of the stock route of app/api/stock: an empty list is refused, a
\* long one is cut to its first ten tickers.
PostStockLegacy ==
    /\ response = 0
    /\ IF Len(body.tickers) = 0
       THEN /\ fetchStarted' = fetchStarted
            /\ response' = 400
       ELSE /\ fetchStarted' =
                   <<[route |-> "legacy", tickers |-> SliceTo(body.tickers, 10)]>>
            /\ response' = 200
    /\ UNCHANGED <<text, maxCount, body, parsed, validation, storeLookback,
                   setCalls>>
    /\ UNCHANGED <<sharpeVars, cacheVars, otherVars>>

NextRequest ==
    \/ PostSharpe
    \/ PostStock
    \/ PostStockLegacy

SpecRequest == InitRequest /\ [][NextRequest]_vars

\* ---------------------------------------------------------- SpecWatchList
\* The useTickers store that consults the domain validators, from its
\* initial state { tickers: [], lookback: 250 }.
\* What addTicker and removeTicker are handed: "aapl", "AAPL", " goog ",
\* "GOOG", "a1", "", "googla".
TickerArguments ==
    {<<"a", "a", "p", "l">>, <<"A", "A", "P", "L">>,
     <<" ", "g", "o", "o", "g", " ">>, <<"G", "O", "O", "G">>,
     <<"a", "1">>, <<>>, <<"g", "o", "o", "g", "l", "a">>}

InitWatchList ==
    /\ SharpeIdle
    /\ CacheInit
    /\ BoundaryIdle
    /\ EngineIdle
    /\ RouteIdle
    /\ WatchIdle
    /\ HookIdle

StoreAddTicker(ticker) ==
    /\ storeCalls < MaxStoreCalls
    /\ storeCalls' = storeCalls + 1
    /\ storeTickers' = addTicker(storeTickers, ticker)
    /\ lastCall' = [op |-> "addTicker",
                    refused |-> addTickerRefuses(storeTickers, ticker)]
    /\ UNCHANGED boundaryVars
    /\ UNCHANGED <<sharpeVars, cacheVars, engineVars, routeVars, hookVars>>

StoreRemoveTicker(ticker) ==
    /\ storeCalls < MaxStoreCalls
    /\ storeCalls' = storeCalls + 1
    /\ storeTickers' = removeTicker(storeTickers, ticker)
    /\ lastCall' = [op |-> "removeTicker", refused |-> FALSE]
    /\ UNCHANGED boundaryVars
    /\ UNCHANGED <<sharpeVars, cacheVars, engineVars, routeVars, hookVars>>

StoreClearTickers ==
    /\ storeCalls < MaxStoreCalls
    /\ storeCalls' = storeCalls + 1
    /\ storeTickers' = <<>>
    /\ lastCall' = [op |-> "clearTickers", refused |-> FALSE]
    /\ UNCHANGED boundaryVars
    /\ UNCHANGED <<sharpeVars, cacheVars, engineVars, routeVars, hookVars>>

StoreSetLookback(x) ==
    /\ storeCalls < MaxStoreCalls
    /\ storeCalls' = storeCalls + 1
    /\ storeLookback' = setLookbackValidated(storeLookback, x)
    /\ lastCall' = [op |-> "setLookback", refused |-> setLookbackRefuses(x)]
    /\ UNCHANGED <<text, maxCount, body, parsed, validation, setCalls,
                   response, fetchStarted>>
    /\ UNCHANGED storeTickers
    /\ UNCHANGED <<sharpeVars, cacheVars, engineVars, routeVars, hookVars>>

NextWatchList ==
    \/ \E ticker \in TickerArguments : StoreAddTicker(ticker)
    \/ \E ticker \in TickerArguments : StoreRemoveTicker(ticker)
    \/ StoreClearTickers
    \/ \E x \in LookbackInputs : StoreSetLookback(x)

SpecWatchList == InitWatchList /\ [][NextWatchList]_vars

\* ------------------------------------------------- SpecSharpeCalculations
\* useSharpeCalculations(tickers): the effect that runs when the list
\* changes, and the fetches it starts, which settle in any order.
\* The duplicate-free lists over the tickers.
WatchLists ==
    {l \in SeqsUpTo(Tickers, Cardinality(Tickers)) :
        \A i, j \in 1..Len(l) : i # j => l[i] # l[j]}

Elements(l) == {l[i] : i \in 1..Len(l)}

\* How a fetch of /api/stock can end: a series, a response that is not ok,
\* a record with an error, a record without a series, a rejected fetch.
Responses == {"data", "notOk", "errorRecord", "noSeries", "rejected"}

LoadingRow(ticker) ==
    [ticker |-> ticker, loading |-> TRUE, ratios |-> "null", error |-> "none"]

\* The row a settled fetch writes: the six ratios, or the message of the
\* error that was thrown.
SettledRow(ticker, answer) ==
    IF answer = "data"
    THEN [ticker |-> ticker, loading |-> FALSE, ratios |-> "computed",
          error |-> "none"]
    ELSE [ticker |-> ticker, loading |-> FALSE, ratios |-> "null",
          error |-> CASE answer = "notOk" -> "Failed to fetch data"
                      [] answer = "errorRecord" -> "No data available for ticker"
                      [] answer = "noSeries" -> "No data available"
                      [] OTHER -> "network error"]

\* Mutant: every ticker of the list counts as new.
HookEffect_NoRefCheck(tickers) ==
    LET newTickers == tickers
        started == {[id |-> nextFetch + i - 1, ticker |-> newTickers[i]] :
                       i \in 1..Len(newTickers)}
    IN  /\ listChanges < MaxListChanges
        /\ listChanges' = listChanges + 1
        /\ watchList' = tickers
        /\ IF Len(tickers) = 0
           THEN /\ results' = <<>>
                /\ fetchedTickersRef' = {}
                /\ UNCHANGED <<inflight, nextFetch>>
           ELSE /\ results' =
                      SelectSeq(results, LAMBDA r : r.ticker \in Elements(tickers))
                          \o [i \in 1..Len(newTickers) |-> LoadingRow(newTickers[i])]
                /\ fetchedTickersRef' = Elements(tickers)
                /\ inflight' = inflight \cup started
                /\ nextFetch' = nextFetch + Len(newTickers)
        /\ fetchesSinceListed' =
               [t \in Tickers |->
                   IF t \notin Elements(tickers) THEN 0
                   ELSE fetchesSinceListed[t] + 1]
        /\ UNCHANGED <<sharpeVars, cacheVars, boundaryVars, engineVars,
                       routeVars, watchVars>>

\* The effect, run with the list the hook was given.
HookEffect(tickers) ==
    LET kept == fetchedTickersRef \cap Elements(tickers)
        newTickers == SelectSeq(tickers, LAMBDA t : t \notin kept)
        started == {[id |-> nextFetch + i - 1, ticker |-> newTickers[i]] :
                       i \in 1..Len(newTickers)}
    IN  /\ listChanges < MaxListChanges
        /\ listChanges' = listChanges + 1
        /\ watchList' = tickers
        /\ IF Len(tickers) = 0
           THEN /\ results' = <<>>
                /\ fetchedTickersRef' = {}
                /\ UNCHANGED <<inflight, nextFetch>>
           ELSE /\ results' =
                      SelectSeq(results, LAMBDA r : r.ticker \in Elements(tickers))
                          \o [i \in 1..Len(newTickers) |-> LoadingRow(newTickers[i])]
                /\ fetchedTickersRef' = kept \cup Elements(newTickers)
                /\ inflight' = inflight \cup started
                /\ nextFetch' = nextFetch + Len(newTickers)
        /\ fetchesSinceListed' =
               [t \in Tickers |->
                   IF t \notin Elements(tickers) THEN 0
                   ELSE IF t \in Elements(newTickers) /\ Len(tickers) > 0
                        THEN fetchesSinceListed[t] + 1
                        ELSE fetchesSinceListed[t]]
        /\ UNCHANGED <<sharpeVars, cacheVars, boundaryVars, engineVars,
                       routeVars, watchVars>>

\* A fetch settles: setResults(prev => prev.map(r => r.ticker === ticker
\* ? row : r)), in the try block or in the catch block.
FetchSettle(f, answer) ==
    /\ f \in inflight
    /\ inflight' = inflight \ {f}
    /\ results' = [i \in 1..Len(results) |->
                      IF results[i].ticker = f.ticker
                      THEN SettledRow(f.ticker, answer)
                      ELSE results[i]]
    /\ UNCHANGED <<watchList, fetchedTickersRef, nextFetch, listChanges,
                   fetchesSinceListed>>
    /\ UNCHANGED <<sharpeVars, cacheVars, boundaryVars, engineVars,
                   routeVars, watchVars>>

FetchIds == 1..(MaxListChanges * Cardinality(Tickers))

Fetches == [id : FetchIds, ticker : Tickers]

InitSharpeCalculations ==
    /\ SharpeIdle
    /\ CacheInit
    /\ BoundaryIdle
    /\ EngineIdle
    /\ RouteIdle
    /\ WatchIdle
    /\ HookIdle

NextSharpeCalculations ==
    \/ \E tickers \in WatchLists : HookEffect(tickers)
    \/ \E f \in Fetches, answer \in Responses : FetchSettle(f, answer)

\* Every fetch settles: the browser answers or fails each request.
SpecSharpeCalculations ==
    /\ InitSharpeCalculations
    /\ [][NextSharpeCalculations]_vars
    /\ \A f \in Fetches :
           WF_vars(\E answer \in Responses : FetchSettle(f, answer))

\* -------------------------------------------------------- SpecSharpeRoute
\* POST of the Sharpe route after validation: fetchMultipleStocks for the
\* tickers of the request, then, in results.map, per ticker sortChronological,
\* extractClosingPrices and calculateMultiPeriodSharpe.
RouteTickers == <<"AAPL", "MSFT">>

\* The bars fetchHistoricalData may return: three days, and for the second
\* day also a bar without a close.
BarPool ==
    {Quote(1, 50, 50, 10), Quote(2, 100, 100, 10), Quote(3, 50, 50, 10),
     Quote(2, 0, 100, 10)}

\* Up to MaxBars different bars of the pool, in any order.
Deliveries ==
    {d \in SeqsUpTo(BarPool, MaxBars) :
        \A i, j \in 1..Len(d) : i # j => d[i] # d[j]}

InitSharpeRoute ==
    /\ SharpeIdle
    /\ CacheInit
    /\ BoundaryIdle
    /\ EngineIdle
    /\ WatchIdle
    /\ HookIdle
    /\ delivered \in [Tickers -> Deliveries]
    /\ stock = [t \in Tickers |-> <<>>]
    /\ chronological = [t \in Tickers |-> <<>>]
    /\ analysed = [t \in Tickers |-> <<>>]
    /\ steps = [t \in Tickers |-> <<>>]

\* fetchSingleStock of one ticker resolves; fetchFn has filtered the bars
\* it was given, if any.
RouteFetchReturn(t) ==
    /\ stock[t] = <<>>
    /\ stock' = [stock EXCEPT ![t] = <<fetchFnOn(t, delivered[t])>>]
    /\ steps' = [steps EXCEPT ![t] =
                    IF Len(delivered[t]) = 0 THEN @ ELSE Append(@, "validate")]
    /\ UNCHANGED <<delivered, chronological, analysed>>
    /\ UNCHANGED <<sharpeVars, cacheVars, boundaryVars, engineVars, watchVars, hookVars>>

\* Promise.all has fulfilled.
AllFetched == \A t \in Tickers : stock[t] # <<>>

\* results.map has reached the ticker: the rows before it are made.
MapTurn(i) == \A j \in 1..(i - 1) : analysed[RouteTickers[j]] # <<>>

\* stockResult.error || stockResult.historicalData.length === 0
NoData(r) == "error" \in DOMAIN r \/ Len(r.historicalData) = 0

\* The row of a ticker without data: every period null, and an error.
RouteSkip(i) ==
    LET t == RouteTickers[i]
    IN  /\ AllFetched
        /\ MapTurn(i)
        /\ analysed[t] = <<>>
        /\ NoData(stock[t][1])
        /\ analysed' = [analysed EXCEPT ![t] =
               <<[ticker |-> t, yesterday |-> Null, lastWeek |-> Null,
                  lastMonth |-> Null, lastQuarter |-> Null,
                  lastSemester |-> Null, lastYear |-> Null,
                  error |-> IF "error" \in DOMAIN stock[t][1]
                            THEN stock[t][1].error
                            ELSE "No data available"]>>]
        /\ UNCHANGED <<delivered, stock, chronological, steps>>
        /\ UNCHANGED <<sharpeVars, cacheVars, boundaryVars, engineVars, watchVars, hookVars>>

\* const chronologicalData = sortChronological(stockResult.historicalData)
RouteSort(i) ==
    LET t == RouteTickers[i]
    IN  /\ AllFetched
        /\ MapTurn(i)
        /\ analysed[t] = <<>>
        /\ chronological[t] = <<>>
        /\ ~NoData(stock[t][1])
        /\ chronological' = [chronological EXCEPT ![t] =
               <<sortChronological(stock[t][1].historicalData)>>]
        /\ steps' = [steps EXCEPT ![t] = Append(@, "sort")]
        /\ UNCHANGED <<delivered, stock, analysed>>
        /\ UNCHANGED <<sharpeVars, cacheVars, boundaryVars, engineVars, watchVars, hookVars>>

\* calculateMultiPeriodSharpe(extractClosingPrices(chronologicalData), ticker)
RouteAnalyze(i) ==
    LET t == RouteTickers[i]
    IN  /\ chronological[t] # <<>>
        /\ analysed[t] = <<>>
        /\ analysed' = [analysed EXCEPT ![t] =
               <<calculateMultiPeriodSharpe(extractPrices(chronological[t][1]),
                                            stock[t][1].ticker,
                                            stdDevEstimator)>>]
        /\ steps' = [steps EXCEPT ![t] = Append(@, "analyze")]
        /\ UNCHANGED <<delivered, stock, chronological>>
        /\ UNCHANGED <<sharpeVars, cacheVars, boundaryVars, engineVars, watchVars, hookVars>>

NextSharpeRoute ==
    \/ \E t \in Tickers : RouteFetchReturn(t)
    \/ \E i \in 1..Len(RouteTickers) : RouteSkip(i)
    \/ \E i \in 1..Len(RouteTickers) : RouteSort(i)
    \/ \E i \in 1..Len(RouteTickers) : RouteAnalyze(i)

SpecSharpeRoute == InitSharpeRoute /\ [][NextSharpeRoute]_vars

\* ----------------------------------------------------------------- claims
closes == extractPrices(historicalData)

\* C1: for every lookback L >= 1 and every price series shorter than 2*L,
\* calculateSharpeForPeriod returns null, never a metrics record.
C1_ShortSeriesIsNull ==
    (metrics # <<>> /\ lookback >= 1 /\ Len(closes) < 2 * lookback)
        => metrics[1] = Null

C1_Witness ==
    /\ metrics # <<>>
    /\ lookback = 2
    /\ Len(closes) = 3
    /\ metrics[1] = Null

\* C2: for every lookback L and every price series of length >= 2*L,
\* calculateSharpeForPeriod returns a metrics record whose periodDays is L.
C2_LongSeriesHasMetrics ==
    (metrics # <<>> /\ Len(closes) >= 2 * lookback)
        => /\ metrics[1] # Null
           /\ DOMAIN metrics[1] =
                  {"sharpeRatio", "trailingReturn", "stdDev", "periodDays"}
           /\ metrics[1].periodDays = lookback

C2_Witness ==
    /\ metrics # <<>>
    /\ lookback = 2
    /\ Len(closes) = 4
    /\ metrics[1] # Null
    /\ metrics[1].periodDays = 2
    /\ metrics[1].stdDev > 0

MetricFields == {"sharpeRatio1Y", "trailingReturn1Y", "stdDev1Y"}

\* What the claim expects at 0-based index i of the annotated series.
PrefixMetrics(i) == calculateSharpeForPeriod(SliceTo(closes, i + 1), lookback,
                                             stdDevEstimator)

\* C10: in the series enhanceWithSharpeMetrics returns, a point at index
\* i < 2L-1 carries no metric field, and a point at index i >= 2L-1 carries
\* the sharpeRatio, trailingReturn and stdDev that calculateSharpeForPeriod
\* returns on the closes of the prefix ending at i.
C10_AnnotationMatchesPrefix ==
    enhanced # <<>> =>
        /\ Len(enhanced[1]) = Len(historicalData)
        /\ \A i \in 0..(Len(historicalData) - 1) :
             LET p == enhanced[1][i + 1]
             IN  IF i < 2 * lookback - 1
                 THEN DOMAIN p \cap MetricFields = {}
                 ELSE /\ MetricFields \subseteq DOMAIN p
                      /\ PrefixMetrics(i) # Null
                      /\ p.sharpeRatio1Y = PrefixMetrics(i).sharpeRatio
                      /\ p.trailingReturn1Y = PrefixMetrics(i).trailingReturn
                      /\ p.stdDev1Y = PrefixMetrics(i).stdDev

C10_Witness ==
    /\ enhanced # <<>>
    /\ lookback = 2
    /\ Len(enhanced[1]) = 5
    /\ DOMAIN enhanced[1][3] \cap MetricFields = {}
    /\ MetricFields \subseteq DOMAIN enhanced[1][4]
    /\ enhanced[1][5].stdDev1Y > 0
    /\ enhanced[1][5].sharpeRatio1Y # enhanced[1][4].sharpeRatio1Y

\* The series that agree with historicalData on every point at index <= i.
AgreeUpTo(i) ==
    {other \in InputSeries :
        /\ Len(other) > i
        /\ SubSeq(other, 1, i + 1) = SubSeq(historicalData, 1, i + 1)}

\* C11: for any two series that agree on all points at indices <= i, what
\* enhanceWithSharpeMetrics attaches to point i is the same: the annotation
\* of day i does not depend on any price after day i.
C11_LeakageFree ==
    enhanced # <<>> =>
        \A i \in 0..(Len(historicalData) - 1) :
            \A other \in AgreeUpTo(i) :
                enhanceWithSharpeMetrics(other, lookback, stdDevEstimator)[i + 1]
                    = enhanced[1][i + 1]

\* An annotated day followed by one more day, whose price other series with
\* the same first four days do not share.
C11_Witness ==
    /\ enhanced # <<>>
    /\ lookback = 2
    /\ Len(historicalData) = 5
    /\ MetricFields \subseteq DOMAIN enhanced[1][4]
    /\ enhanced[1][4].stdDev1Y > 0
    /\ enhanced[1][5].sharpeRatio1Y # enhanced[1][4].sharpeRatio1Y
    /\ \E other \in AgreeUpTo(3) :
          /\ Len(other) = 5
          /\ other[5].close # historicalData[5].close

PriceFields == {"date", "close", "open", "high", "low", "volume"}

C13_ZeroDeviationZeroRatio ==
    /\ (metrics # <<>> /\ metrics[1] # Null /\ metrics[1].stdDev = 0)
           => metrics[1].sharpeRatio = 0
    /\ \A n \in 1..Len(enhanced) : \A i \in 1..Len(enhanced[n]) :
           (MetricFields \subseteq DOMAIN enhanced[n][i]
               /\ enhanced[n][i].stdDev1Y = 0)
               => enhanced[n][i].sharpeRatio1Y = 0

\* A one-day period: a return, and one daily return has no deviation.
C13_Witness ==
    /\ metrics # <<>>
    /\ metrics[1] # Null
    /\ lookback = 1
    /\ metrics[1].stdDev = 0
    /\ metrics[1].trailingReturn # 0
    /\ metrics[1].sharpeRatio = 0

\* The slots of the result with their lookbacks and required lengths.
Slots ==
    {<<"yesterday", 1, 2>>,
     <<"lastWeek", TRADING_DAYS_WEEK, 2 * TRADING_DAYS_WEEK>>,
     <<"lastMonth", TRADING_DAYS_MONTH, 2 * TRADING_DAYS_MONTH>>,
     <<"lastQuarter", TRADING_DAYS_QUARTER, 2 * TRADING_DAYS_QUARTER>>,
     <<"lastSemester", TRADING_DAYS_SEMESTER, 2 * TRADING_DAYS_SEMESTER>>,
     <<"lastYear", TRADING_DAYS_YEAR, 2 * TRADING_DAYS_YEAR>>}

\* C14: calculateMultiPeriodSharpe fills six slots for the lookbacks 1, 5,
\* 21, 63, 125 and 250; a slot is null exactly when the series is shorter
\* than its own required length (2 for yesterday, 2*L for the others) and
\* is calculateSharpeForPeriod(prices, L) otherwise, whatever the other
\* slots are.
C14_SlotsIndependent ==
    multi # <<>> =>
        /\ {sl[2] : sl \in Slots} = {1, 5, 21, 63, 125, 250}
        /\ DOMAIN multi[1] = {sl[1] : sl \in Slots} \cup {"ticker"}
        /\ \A sl \in Slots :
              IF Len(closes) < sl[3]
              THEN multi[1][sl[1]] = Null
              ELSE /\ multi[1][sl[1]] # Null
                   /\ multi[1][sl[1]] =
                          calculateSharpeForPeriod(closes, sl[2], stdDevEstimator)

\* A year of data is missing while the semester and the shorter periods
\* have theirs.
C14_Witness ==
    /\ multi # <<>>
    /\ Len(closes) = 2 * TRADING_DAYS_SEMESTER
    /\ multi[1].lastYear = Null
    /\ multi[1].lastSemester # Null
    /\ multi[1].lastSemester.periodDays = TRADING_DAYS_SEMESTER
    /\ multi[1].lastSemester.stdDev > 0
    /\ multi[1].lastWeek # Null
    /\ multi[1].yesterday # Null

\* The results fetchSingleStock has returned.
StockResults ==
    {calls[c].result[1] :
        c \in {d \in CallIds : calls[d].kind = "stock" /\ calls[d].pc = "done"}}

\* close > 0 and open > 0 and volume >= 0, none of them NaN.
ValidBar(b) ==
    /\ ~IsNaN(b.close) /\ b.close > 0
    /\ ~IsNaN(b.open) /\ b.open > 0
    /\ ~IsNaN(b.volume) /\ b.volume >= 0

\* C15: every result of fetchSingleStock holds only bars with close > 0,
\* open > 0 and volume >= 0, holds every bar of the upstream answer that
\* satisfies this policy, and its daysCount is the length of its series.
C15_OnlyAndAllValidBars ==
    \A r \in StockResults :
        /\ \A i \in 1..Len(r.historicalData) : ValidBar(r.historicalData[i])
        /\ r.daysCount = Len(r.historicalData)
        /\ "error" \notin DOMAIN r =>
              \A i \in 1..Len(RawQuotes(r.ticker)) :
                  ValidBar(RawQuotes(r.ticker)[i]) =>
                      \E j \in 1..Len(r.historicalData) :
                          r.historicalData[j] = RawQuotes(r.ticker)[i]

\* A result whose upstream answer had bars to discard and bars to keep, one
\* of them with volume 0.
C15_Witness ==
    \E r \in StockResults :
        /\ r.ticker = "AAPL"
        /\ "error" \notin DOMAIN r
        /\ r.daysCount = 2
        /\ Len(RawQuotes("AAPL")) = 4
        /\ \E j \in 1..2 : r.historicalData[j].volume = 0

\* The compute function of a fetchSingleStock call returns.
FetchFnStep(c) ==
    /\ calls[c].kind = "stock"
    /\ calls[c].pc = "computing"
    /\ calls'[c].pc # "computing"

\* C16: when the price source fails or answers without bars while
\* fetchSingleStock fetches a ticker, the call does not raise: it returns
\* the record of that ticker with error set, an empty series and
\* daysCount 0.
C16_UpstreamFailureIsARecord ==
    [][\A c \in CallIds :
         (FetchFnStep(c) /\ upstream[calls[c].key[2]] \in {"down", "empty"}) =>
             /\ calls'[c].pc = "done"
             /\ calls'[c].raised = "none"
             /\ calls'[c].result[1].ticker = calls[c].key[2]
             /\ "error" \in DOMAIN calls'[c].result[1]
             /\ calls'[c].result[1].historicalData = <<>>
             /\ calls'[c].result[1].daysCount = 0]_vars

\* A call whose fetch met a source that answered without bars.
C16_Witness ==
    \E c \in CallIds :
        /\ calls[c].kind = "stock"
        /\ calls[c].pc = "done"
        /\ calls[c].found \in {"miss", "none"}
        /\ upstream[calls[c].key[2]] = "empty"
        /\ "error" \in DOMAIN calls[c].result[1]
        /\ calls[c].result[1].historicalData = <<>>

\* ------------------------------------------------- claims on the boundary
\* C17: a request whose tickers do not all match ^[A-Z]{1,5}$, that carries
\* more than 10 tickers or, on the Sharpe route, a lookback that is no
\* integer in 1..1000, is refused before fetchMultipleStocks is called.
C17_InvalidInputRejected ==
    fetchStarted # <<>> =>
        /\ \A i \in 1..Len(body.tickers) : TICKER_REGEX(body.tickers[i])
        /\ Len(body.tickers) <= MAX_TICKERS_PER_REQUEST
        /\ fetchStarted[1].route = "sharpe" => LookbackSchema(body.lookback)

\* An integer with 1 <= x <= 1000.
Acceptable(x) ==
    /\ IsInteger(x)
    /\ x.tenths >= 10
    /\ x.tenths <= 10000

\* C18: validateLookback accepts a lookback only if it is an integer with
\* 1 <= lookback <= 1000, and accepts it as it is; anything else is a
\* validation error.  setLookback changes the lookback of the store only to
\* such a value, never to a clamped or rounded one.
C18_OnlyIntegersInRange ==
    /\ [](validation # <<>> =>
            /\ validation[1].valid <=> Acceptable(body)
            /\ validation[1].valid => validation[1].data * 10 = body.tenths
            /\ ~validation[1].valid => "error" \in DOMAIN validation[1])
    /\ [][storeLookback' # storeLookback =>
            /\ Acceptable(body)
            /\ storeLookback' * 10 = body.tenths]_vars

\* The items of str between its commas, as <<first, last>> positions.
Segments(str) ==
    {seg \in (1..(Len(str) + 1)) \X (0..Len(str)) :
        /\ seg[1] <= seg[2] + 1
        /\ seg[1] = 1 \/ str[seg[1] - 1] = ","
        /\ seg[2] = Len(str) \/ str[seg[2] + 1] = ","
        /\ \A i \in seg[1]..seg[2] : str[i] # ","}

\* An item trimmed and in upper case.
Cleaned(str, seg) == toUpperCase(Trim(SubSeq(str, seg[1], seg[2])))

\* The distinct tickers of str.
TickersIn(str) == {Cleaned(str, seg) : seg \in Segments(str)} \ {<<>>}

\* Where ticker t occurs first in str.
FirstAt(str, t) ==
    CHOOSE lo \in 1..(Len(str) + 1) :
        /\ \E seg \in Segments(str) : seg[1] = lo /\ Cleaned(str, seg) = t
        /\ \A seg \in Segments(str) : Cleaned(str, seg) = t => seg[1] >= lo

\* C19: parseTickerInput returns the comma-separated items of its input,
\* trimmed and upper-cased, without the empty ones, each distinct ticker
\* once and in order of first occurrence ("aapl, aapl, googl" gives
\* ["AAPL", "GOOGL"]); validateAndParseTickerInput counts and validates the
\* tickers that are left after the duplicates are removed.
C19_ParsedOnceInOrder ==
    /\ parsed # <<>> =>
          LET r == parsed[1]
          IN  /\ {r[i] : i \in 1..Len(r)} = TickersIn(text)
              /\ \A i, j \in 1..Len(r) :
                    i < j => /\ r[i] # r[j]
                             /\ FirstAt(text, r[i]) < FirstAt(text, r[j])
              /\ text = ScenarioText =>
                    r = << <<"A", "A", "P", "L">>, <<"G", "O", "O", "G", "L">> >>
    /\ validation # <<>> =>
          /\ validation[1].valid <=>
                /\ Cardinality(TickersIn(text)) >= 1
                /\ Cardinality(TickersIn(text)) <= maxCount
                /\ \A t \in TickersIn(text) : TICKER_REGEX(t)
          /\ validation[1].valid =>
                /\ Len(validation[1].data) = Cardinality(TickersIn(text))
                /\ {validation[1].data[i] : i \in 1..Len(validation[1].data)}
                      = TickersIn(text)

\* The same ticker eleven times is one ticker, and a valid input.
C19_Witness ==
    /\ text = RepeatedText
    /\ maxCount = MAX_TICKERS_PER_REQUEST
    /\ parsed = << << <<"A">> >> >>
    /\ validation # <<>>
    /\ validation[1].valid
    /\ validation[1].data = << <<"A">> >>

\* C20: calculateReturns of N prices returns max(N-1, 0) returns, the k-th
\* (from 0) being the trailing return of prices[k+1] against prices[k]; no
\* price or one price gives no return.
C20_ReturnsSeries ==
    returnsSeries # <<>> =>
        LET r == returnsSeries[1]
            N == Len(closes)
        IN  /\ Len(r) = IF N - 1 > 0 THEN N - 1 ELSE 0
            /\ N < 2 => r = <<>>
            /\ \A k \in 0..(Len(r) - 1) :
                  r[k + 1] = calculateTrailingReturn(At(closes, k + 1),
                                                     At(closes, k))

\* A gain, a loss and a return against a price of 0.
C20_Witness ==
    /\ returnsSeries # <<>>
    /\ closes = <<50, 100, 50, 0, 100>>
    /\ returnsSeries[1] = <<100, -50, -100, 0>>

\* C21: calculateTrailingReturn(current, past) returns 0 whenever
\* past <= 0, and otherwise ((current - past) / past) * 100, here to the
\* whole percent; it returns a number (NaN when an argument is NaN) for
\* every pair of numbers, it never throws.
C21_TrailingReturn ==
    trailing # <<>> =>
        /\ trailing[1] \in Int
        /\ (~IsNaN(pastPrice) /\ pastPrice <= 0) => trailing[1] = 0
        /\ (~IsNaN(pastPrice) /\ pastPrice > 0 /\ ~IsNaN(currentPrice)) =>
               /\ ~IsNaN(trailing[1])
               /\ Abs((currentPrice - pastPrice) * 100 - trailing[1] * pastPrice)
                      < pastPrice
               /\ (currentPrice >= pastPrice) = (trailing[1] >= 0)
        /\ (IsNaN(pastPrice) \/ (pastPrice > 0 /\ IsNaN(currentPrice))) =>
               IsNaN(trailing[1])

\* A negative past price with a different current price: the quotient is
\* not 0, the result is.
C21_Witness ==
    /\ trailing # <<>>
    /\ pastPrice < 0
    /\ ~IsNaN(pastPrice)
    /\ currentPrice > 0
    /\ trailing[1] = 0

\* The series is one positive price repeated.
ConstantPositive(prices) ==
    /\ Len(prices) >= 1
    /\ \A i \in 1..Len(prices) : prices[i] = prices[1]
    /\ ~IsNaN(prices[1])
    /\ prices[1] > 0

\* C23: for a constant positive price series of length >= 2*L,
\* calculateSharpeForPeriod returns trailingReturn 0, stdDev 0 and
\* sharpeRatio 0; here for each period L of calculateMultiPeriodSharpe.
C23_ConstantSeriesIsZero ==
    (multi # <<>> /\ ConstantPositive(closes)) =>
        \A sl \in Slots :
            Len(closes) >= 2 * sl[2] =>
                /\ multi[1][sl[1]] # Null
                /\ multi[1][sl[1]].trailingReturn = 0
                /\ multi[1][sl[1]].stdDev = 0
                /\ multi[1][sl[1]].sharpeRatio = 0

\* Ten closes of 100 and the lookback of a week.
C23_Witness ==
    /\ multi # <<>>
    /\ ConstantPositive(closes)
    /\ Len(closes) = 2 * TRADING_DAYS_WEEK
    /\ closes[1] = 100
    /\ multi[1].lastWeek # Null
    /\ multi[1].lastWeek.periodDays = TRADING_DAYS_WEEK
    /\ multi[1].lastWeek.sharpeRatio = 0
    /\ multi[1].lastMonth = Null

\* The failure the claim expects for a lookback that makes no sense.
InvalidArgument == [failure |-> "InvalidArgument"]

\* C24: a zero or negative lookback is rejected with an InvalidArgument
\* failure at the entry of calculateSharpeForPeriod and of
\* enhanceWithSharpeMetrics: the former returns no metrics record and the
\* latter annotates no point.
C24_NonsenseLookbackRejected ==
    lookback < 1 =>
        /\ metrics # <<>> => metrics[1] = InvalidArgument
        /\ \A n \in 1..Len(enhanced) : \A i \in 1..Len(enhanced[n]) :
               DOMAIN enhanced[n][i] \cap MetricFields = {}

\* C25: calculateStandardDeviation returns 0 for fewer than 2 values and 0
\* when calcStdDev throws; whatever calcStdDev does, the caller gets a
\* number and no exception.
C25_StandardDeviationNeverRaises ==
    deviation # <<>> =>
        /\ deviation[1] # Thrown
        /\ Len(samples) < 2 => deviation[1] = 0
        /\ (Len(samples) >= 2 /\ TryCalcStdDev(samples, stdDevEstimator).threw)
               => deviation[1] = 0

\* calcStdDev throws on values whose deviation is not 0.
C25_Witness ==
    /\ deviation # <<>>
    /\ Len(samples) = 2
    /\ samples[1] # samples[2]
    /\ \A i \in 1..2 : ~IsNaN(samples[i])
    /\ TryCalcStdDev(samples, stdDevEstimator).threw
    /\ calcStdDev(samples, "population") > 0
    /\ deviation[1] = 0

\* The last lookback + 1 closes of a series.
Window(series) ==
    LET c == extractPrices(series)
    IN  SubSeq(c, Len(c) - lookback, Len(c))

\* The lookback one-step returns between the closes of the window.
WindowReturns ==
    [k \in 1..lookback |->
        calculateTrailingReturn(Window(historicalData)[k + 1],
                                Window(historicalData)[k])]

\* The series of at least 2 * lookback points with the same window.
SameWindow ==
    {other \in InputSeries :
        /\ Len(other) >= 2 * lookback
        /\ Window(other) = Window(historicalData)}

\* C26: for L >= 1 and a series of at least 2*L prices,
\* calculateSharpeForPeriod takes stdDev over exactly the L one-step returns
\* between the last L+1 prices and trailingReturn from the last price and
\* the price L positions before it; two such series with the same last L+1
\* prices get the same metrics.
C26_LastWindowDecides ==
    (metrics # <<>> /\ lookback >= 1 /\ Len(closes) >= 2 * lookback) =>
        /\ metrics[1] # Null
        /\ Len(WindowReturns) = lookback
        /\ metrics[1].stdDev =
               calculateStandardDeviation(WindowReturns, stdDevEstimator)
        /\ metrics[1].trailingReturn =
               calculateTrailingReturn(closes[Len(closes)],
                                       closes[Len(closes) - lookback])
        /\ \A other \in SameWindow :
               calculateSharpeForPeriod(extractPrices(other), lookback,
                                        stdDevEstimator) = metrics[1]

\* Five prices and L = 2: the first two prices lie outside the window, and
\* a series that differs there gets the same metrics.
C26_Witness ==
    /\ metrics # <<>>
    /\ lookback = 2
    /\ Len(closes) = 5
    /\ metrics[1].stdDev > 0
    /\ metrics[1].trailingReturn # 0
    /\ closes[1] # closes[4]
    /\ \E other \in SameWindow :
          /\ Len(other) = 5
          /\ other[1].close # historicalData[1].close
          /\ other[2].close # historicalData[2].close

\* s is an initial part of t.
IsPrefix(s, t) == Len(s) <= Len(t) /\ SubSeq(t, 1, Len(s)) = s

\* Non-decreasing by date, oldest first.
Chronological(data) ==
    \A i \in 1..(Len(data) - 1) : data[i].date <= data[i + 1].date

\* The same bars, each as often.
SameBars(a, b) ==
    /\ Len(a) = Len(b)
    /\ \A x \in BarPool :
           Cardinality({i \in 1..Len(a) : a[i] = x})
               = Cardinality({i \in 1..Len(b) : b[i] = x})

\* C27: for each ticker of a Sharpe request the steps validate, sort and
\* analyze are taken in that order, and the series whose closes are handed
\* to calculateMultiPeriodSharpe holds the valid bars delivered for the
\* ticker in chronological order, whatever order they were delivered in.
C27_ValidateSortAnalyze ==
    \A t \in Tickers :
        /\ IsPrefix(steps[t], <<"validate", "sort", "analyze">>)
        /\ (analysed[t] # <<>> /\ "error" \notin DOMAIN analysed[t][1]) =>
               /\ steps[t] = <<"validate", "sort", "analyze">>
               /\ Chronological(chronological[t][1])
               /\ SameBars(chronological[t][1], filterValidPrices(delivered[t]))
               /\ analysed[t][1] =
                      calculateMultiPeriodSharpe(
                          extractPrices(chronological[t][1]), t, stdDevEstimator)

\* Bars delivered newest first, an invalid one among them: the closes were
\* handed over oldest first and the last day's return was computed.
C27_Witness ==
    /\ delivered["AAPL"] =
           <<Quote(3, 50, 50, 10), Quote(2, 0, 100, 10), Quote(1, 50, 50, 10)>>
    /\ delivered["MSFT"] =
           <<Quote(2, 100, 100, 10), Quote(3, 50, 50, 10), Quote(1, 50, 50, 10)>>
    /\ analysed["AAPL"] # <<>>
    /\ analysed["MSFT"] # <<>>
    /\ extractPrices(chronological["MSFT"][1]) = <<50, 100, 50>>
    /\ analysed["MSFT"][1].yesterday # Null
    /\ analysed["MSFT"][1].yesterday.trailingReturn = -50
    /\ Len(chronological["AAPL"][1]) = 2

\* The key holds an error record stored less than 3600 seconds ago.
HoldsRecentError(k) ==
    /\ Present(k)
    /\ "error" \in DOMAIN store[k][1].value
    /\ now - store[k][1].storedAt < 3600

StoreState == <<storeTickers, storeLookback>>

\* C29: after any calls of addTicker, removeTicker, clearTickers and
\* setLookback from the initial state, the store's list holds no ticker
\* twice, every ticker on it matches ^[A-Z]{1,5}$ and the lookback is a
\* whole number from 1 to 1000; a call the store refuses leaves the list
\* and the lookback as they were.
C29_StoreStaysValid ==
    /\ [](/\ \A i, j \in 1..Len(storeTickers) :
               i # j => storeTickers[i] # storeTickers[j]
          /\ \A i \in 1..Len(storeTickers) : TICKER_REGEX(storeTickers[i])
          /\ storeLookback \in LOOKBACK_MIN..LOOKBACK_MAX)
    /\ [][(storeCalls' # storeCalls /\ lastCall'.refused)
             => StoreState' = StoreState]_vars

\* Two tickers on the list and a lookback set; the last call, a ticker
\* already listed or a lookback out of range, was refused.
C29_Witness ==
    /\ storeTickers = <<<<"A", "A", "P", "L">>, <<"G", "O", "O", "G">>>>
    /\ storeLookback = 2
    /\ lastCall.refused
    /\ storeCalls = MaxStoreCalls

\* The rows the results hold for a ticker.
RowsOf(rows, t) == {i \in 1..Len(rows) : rows[i].ticker = t}

\* The ticker is on the list and its row is still loading.
StillLoading(t) ==
    /\ t \in Elements(watchList)
    /\ \E i \in RowsOf(results, t) : results[i].loading

\* C30: whatever the order of the list changes and of the settling of the
\* fetches, the results never hold two rows of one ticker; a ticker is
\* fetched at most once while it stays on the list; when the fetch of a
\* ticker on the list settles, with data or with a failure, the ticker's
\* row stops loading, and so every row of a ticker that stays on the list
\* eventually stops loading.
C30_OneRowOneFetch ==
    /\ [](\A t \in Tickers :
            /\ Cardinality(RowsOf(results, t)) <= 1
            /\ t \in Elements(watchList) => fetchesSinceListed[t] <= 1)
    /\ [][\A f \in inflight :
            (f \notin inflight' /\ f.ticker \in Elements(watchList)) =>
                /\ RowsOf(results', f.ticker) # {}
                /\ \A i \in RowsOf(results', f.ticker) : ~results'[i].loading]_vars
    /\ \A t \in Tickers : StillLoading(t) ~> ~StillLoading(t)

\* A ticker was taken off the list and put back while its first fetch was
\* in flight: one row, a second fetch, and the row has stopped loading.
C30_Witness ==
    /\ watchList = <<"MSFT", "AAPL">>
    /\ listChanges = 3
    /\ nextFetch = 4
    /\ Len(results) = 2
    /\ fetchesSinceListed["AAPL"] = 1
    /\ \E i \in RowsOf(results, "AAPL") :
          ~results[i].loading /\ results[i].error # "none"
    /\ \E f \in inflight : f.ticker = "AAPL"

====
